---------------------------- MODULE Spec2Model ----------------------------
(***************************************************************************)
(* The A3 page editor: the Fabric canvas component (viewport pan/zoom/fit, *)
(* pointer gestures, icon drop, keyboard, PDF upload) and the document     *)
(* editor around it (save/load, page export).                              *)
(*                                                                         *)
(* Numbers that are doubles in the program are exact rationals <<n, d>>    *)
(* here (d > 0, lowest terms), so that equalities between coordinates are  *)
(* decided by the arithmetic and not by a rounding mode.                   *)
(***************************************************************************)
EXTENDS Integers, Sequences, FiniteSets, TLC

(***************************************************************************)
(* Bounds of the model.                                                    *)
(***************************************************************************)
\* viewport-changing or object-moving steps explored per behaviour
MaxView == 2
\* object instances ever created (page, icons, PDF images, restored copies)
MaxIds == 4
\* saved documents kept in the list
MaxDocs == 3
\* mouse:down events in a behaviour
MaxDowns == 4
\* icons on the canvas or still loading
MaxIcons == 1
\* uploads in flight
MaxUploads == 2
\* PDF exports and prints in flight
MaxJobs == 1
\* largest numerator or denominator of a coordinate
MaxInt == 1000000000
\* how far the toolbar is dragged from where it starts, in pixels along x and y
MaxToolbar == 20

(***************************************************************************)
(* Exact rational arithmetic.  A result whose numerator or denominator     *)
(* would exceed MaxInt is NaR ("not a representable rational"); every      *)
(* operation passes NaR on, and a step of the model is taken only when the *)
(* numbers it stores are representable.                                    *)
(***************************************************************************)
Abs(n) == IF n < 0 THEN -n ELSE n

RECURSIVE GCD(_, _)
GCD(a, b) == IF b = 0 THEN a ELSE GCD(b, a % b)

NaR == << 0, 0 >>
IsR(a) == a[2] # 0
MulOk(x, y) == x = 0 \/ y = 0 \/ Abs(x) <= MaxInt \div Abs(y)

\* the rational n/d in lowest terms with a positive denominator
Q(n, d) ==
    LET g == GCD(Abs(n), Abs(d))
        s == IF d < 0 THEN -1 ELSE 1
    IN  << (s * n) \div g, (s * d) \div g >>

I(n) == << n, 1 >>
\* cross-cancelling before multiplying keeps the intermediate products small
RAdd(a, b) ==
    IF ~IsR(a) \/ ~IsR(b) THEN NaR
    ELSE LET g == GCD(a[2], b[2])
             da == a[2] \div g
             db == b[2] \div g
         IN  IF MulOk(a[1], db) /\ MulOk(b[1], da) /\ MulOk(da, b[2])
             THEN Q(a[1] * db + b[1] * da, da * b[2])
             ELSE NaR
RNeg(a) == << -a[1], a[2] >>
RSub(a, b) == RAdd(a, RNeg(b))
RMul(a, b) ==
    IF ~IsR(a) \/ ~IsR(b) THEN NaR
    ELSE LET g1 == GCD(Abs(a[1]), b[2])
             g2 == GCD(Abs(b[1]), a[2])
             n1 == a[1] \div g1
             n2 == b[1] \div g2
             d1 == a[2] \div g2
             d2 == b[2] \div g1
         IN  IF MulOk(n1, n2) /\ MulOk(d1, d2) THEN << n1 * n2, d1 * d2 >> ELSE NaR
RInv(a) == IF a[1] < 0 THEN << -a[2], -a[1] >> ELSE << a[2], a[1] >>
RDiv(a, b) == RMul(a, RInv(b))
\* r1/d1 < r2/d2 for 0 <= r < d, by comparing the reciprocals' integer parts
RECURSIVE FracLt(_, _, _, _)
FracLt(r1, d1, r2, d2) ==
    IF r2 = 0 THEN FALSE
    ELSE IF r1 = 0 THEN TRUE
    ELSE IF d1 \div r1 # d2 \div r2 THEN d2 \div r2 < d1 \div r1
    ELSE FracLt(d2 % r2, r2, d1 % r1, r1)
RLt(a, b) ==
    IF a[1] \div a[2] # b[1] \div b[2] THEN a[1] \div a[2] < b[1] \div b[2]
    ELSE FracLt(a[1] % a[2], a[2], b[1] % b[2], b[2])
RLe(a, b) == ~RLt(b, a)
RMin(a, b) == IF ~IsR(a) \/ ~IsR(b) THEN NaR ELSE IF RLt(b, a) THEN b ELSE a
RMax(a, b) == IF ~IsR(a) \/ ~IsR(b) THEN NaR ELSE IF RLt(a, b) THEN b ELSE a

(***************************************************************************)
(* Program constants.                                                      *)
(***************************************************************************)
CANVAS_W == 1000
CANVAS_H == 700
\* Math.round((420 / 25.4) * 150) and Math.round((297 / 25.4) * 150)
A3_W_PX == 2480
A3_H_PX == 1754
PAGE_NAME == "A3_PAGE"
PDF_NAME == "PDF_PAGE"
NO_NAME == "undefined"
MIN_ZOOM == Q(2, 100)
MAX_ZOOM == I(12)
CLICK_MOVE_THRESHOLD == 5
PAN_STEP == 40
TARGET_WIDTH == 30
FIT_PADDING == 30
EXPORT_MULTIPLIER == 2

\* clamps that fail to bound, against which the properties are validated
clampBroken(v, min, max) == v
clampMinOnly(v, min, max) == RMax(min, v)
\* clamp: Math.max(min, Math.min(max, v))
clamp(v, min, max) == RMax(min, RMin(max, v))


(***************************************************************************)
(* Inputs of the environment.                                              *)
(***************************************************************************)
\* pointer positions on the canvas, in device pixels
CENTER == << CANVAS_W \div 2, CANVAS_H \div 2 >>
DevPts == { << 100, 100 >>, << 103, 104 >>, << 104, 104 >>, << 110, 100 >>, CENTER }
\* wheel deltas; 0.999 ** deltaY is irrational for practical purposes and is
\* taken to four significant digits: 0.999^693 = 0.49987, 0.999^6904 = 0.0010003
WheelDeltas == { 693, -693, 6904, -6904 }
Pow999(deltaY) ==
    CASE deltaY = 693 -> Q(1, 2)
      [] deltaY = -693 -> I(2)
      [] deltaY = 6904 -> Q(1, 1000)
      [] deltaY = -6904 -> I(1000)
\* icon assets of the sidebar (the drag payload); "" is an empty payload
IconSrcs == { "/images/fork1.png" }
\* files offered to the upload input: MIME type, and for a PDF the data URL and
\* pixel size its first page rasterizes to; type "" stands for no file selected
PdfFiles == { [ type |-> "application/pdf", src |-> "data:pdfA", w |-> 1000, h |-> 1000 ],
              [ type |-> "application/pdf", src |-> "data:pdfB", w |-> 2480, h |-> 877 ] }
OtherFiles == { [ type |-> "image/png", src |-> "", w |-> 0, h |-> 0 ],
                [ type |-> "", src |-> "", w |-> 0, h |-> 0 ] }

(***************************************************************************)
(* State.                                                                  *)
(***************************************************************************)
VARIABLES
    vpt,          \* canvas.viewportTransform: [s, tx, ty] (a = d = s, e = tx, f = ty)
    objs,         \* canvas.getObjects(): the ordered object list, back to front
    active,       \* canvas.getActiveObject(): an object id, 0 for none
    nextId,       \* next fresh object identity
    isSpaceDown,  \* isSpaceDownRef.current
    isDragging,   \* canvas.isDragging
    selection,    \* canvas.selection
    lastPos,      \* << canvas.lastPosX, canvas.lastPosY >>
    clickState,   \* the click-to-rotate closure state
    ptr,          \* where the pointer is, in device pixels
    btnDown,      \* the mouse button is held after a mouse:down on the canvas
    xform,        \* Fabric's transform in progress: the object being dragged
    rafFit,       \* pending requestAnimationFrame(() => fitToA3Page()) callbacks
    docs,         \* the saved-document list (React state, mirrored to localStorage)
    drops,        \* icon drops whose image is still loading
    uploads,      \* uploads whose PDF is still being read and rasterized
    loads,        \* loadFromJSON calls still deserializing
    exported,     \* the raster handed to the last download
    jobs,         \* PDF exports and prints waiting for the encoder module to load
    pdf,          \* the PDF document the encoder made last
    alert,        \* the message of the alert the last handler raised, "" for none
    ev,           \* the last event handled, with its inputs
    gesture,      \* what has happened since the last mouse:down (an observer's record)
    toolbar,      \* the navigation toolbar: toolbarVisible, toolbarPos and dragRef.current
    nView,        \* viewport- or object-moving steps taken so far
    nDown         \* mouse:down events so far

vars == << vpt, objs, active, nextId, isSpaceDown, isDragging, selection, lastPos,
           clickState, ptr, btnDown, xform, rafFit, docs, drops, uploads, loads,
           exported, jobs, pdf, alert, toolbar, ev, gesture, nView, nDown >>

gestureVars == << isSpaceDown, isDragging, selection, lastPos, clickState, ptr, btnDown,
                 xform, gesture >>
asyncVars == << drops, uploads, loads >>

NoPt == << 0, 0 >>
\* the handler of the last step and its inputs; prevented: it called preventDefault
Ev(op, p, req, tgt, flag) ==
    [ op |-> op, p |-> p, req |-> req, tgt |-> tgt, flag |-> flag, prevented |-> FALSE ]

(***************************************************************************)
(* Coordinate mapping (Fabric's invertTransform / transformPoint for a     *)
(* scale-and-translate matrix) and zoomToPoint.                            *)
(***************************************************************************)
RPt(p) == << I(p[1]), I(p[2]) >>

\* an inverse that drops the translation
toWorldScaleOnly(p, t) == << RDiv(p[1], t.s), RDiv(p[2], t.s) >>
\* transformPoint(p, invertTransform(t))
toWorld(p, t) == << RDiv(RSub(p[1], t.tx), t.s), RDiv(RSub(p[2], t.ty), t.s) >>
\* transformPoint(w, t)
toDevice(w, t) == << RAdd(RMul(w[1], t.s), t.tx), RAdd(RMul(w[2], t.s), t.ty) >>

\* a zoom that keeps the translation
zoomToPointDrift(t, point, value) == [ s |-> value, tx |-> t.tx, ty |-> t.ty ]
\* Fabric: with w the world point under `point`, the scale is set to `value` and
\* the translation t is moved by point - (w * value + t), which leaves point - w * value
zoomToPoint(t, point, value) ==
    LET w == toWorld(point, t)
    IN  [ s |-> value,
          tx |-> RSub(point[1], RMul(w[1], value)),
          ty |-> RSub(point[2], RMul(w[2], value)) ]

getZoom == vpt.s

\* a fit that puts the page at the padding instead of centring it
fitTransformCorner ==
    LET cw == I(CANVAS_W - FIT_PADDING - FIT_PADDING)
        ch == I(CANVAS_H - FIT_PADDING - FIT_PADDING)
        s == clamp(RMin(RDiv(cw, I(A3_W_PX)), RDiv(ch, I(A3_H_PX))), MIN_ZOOM, MAX_ZOOM)
    IN  [ s |-> s, tx |-> I(FIT_PADDING), ty |-> I(FIT_PADDING) ]
\* the transform fitToA3Page sets
fitTransform ==
    LET cw == I(CANVAS_W - FIT_PADDING - FIT_PADDING)
        ch == I(CANVAS_H - FIT_PADDING - FIT_PADDING)
        s == clamp(RMin(RDiv(cw, I(A3_W_PX)), RDiv(ch, I(A3_H_PX))), MIN_ZOOM, MAX_ZOOM)
        dx == RAdd(I(FIT_PADDING), RDiv(RSub(cw, RMul(I(A3_W_PX), s)), I(2)))
        dy == RAdd(I(FIT_PADDING), RDiv(RSub(ch, RMul(I(A3_H_PX), s)), I(2)))
    IN  [ s |-> s, tx |-> dx, ty |-> dy ]

(***************************************************************************)
(* Scene objects.                                                          *)
(***************************************************************************)
Obj(id, type, name, src, left, top, w, h, angle, sel, evt) ==
    [ id |-> id, type |-> type, name |-> name, src |-> src, left |-> left, top |-> top,
      w |-> w, h |-> h, angle |-> angle, selectable |-> sel, evented |-> evt ]

pageRect(id) ==
    Obj(id, "rect", PAGE_NAME, "", I(0), I(0), I(A3_W_PX), I(A3_H_PX), 0, FALSE, FALSE)

Ids(os) == { os[i].id : i \in DOMAIN os }
ById(os, id) == os[CHOOSE i \in DOMAIN os : os[i].id = id]
Without(os, id) == SelectSeq(os, LAMBDA o : o.id # id)
Named(os, name) == { i \in DOMAIN os : os[i].name = name }
\* Array.prototype.find: the first match, 0 for undefined
FindIdx(os, name) ==
    IF Named(os, name) = {} THEN 0
    ELSE CHOOSE i \in Named(os, name) : \A j \in Named(os, name) : i <= j
getPageRect == FindIdx(objs, PAGE_NAME)
getPdfObj == FindIdx(objs, PDF_NAME)
\* what the pointer can be over: Fabric's findTarget returns evented objects
\* only; which of them, if any, lies under the pointer is left open
Targets == { 0 } \cup { objs[i].id : i \in { j \in DOMAIN objs : objs[j].evented } }

(***************************************************************************)
(* Page export (CanvasEditor).                                             *)
(***************************************************************************)
\* getA3Region: the bounds of the object named A3_PAGE, None when there is none
None == [ found |-> FALSE ]
\* a lookup that falls back on the canvas area when there is no page
getA3RegionDefault(os) ==
    LET i == FindIdx(os, PAGE_NAME)
    IN  [ found |-> TRUE,
          left |-> IF i = 0 THEN I(0) ELSE os[i].left,
          top |-> IF i = 0 THEN I(0) ELSE os[i].top,
          width |-> IF i = 0 THEN I(CANVAS_W) ELSE os[i].w,
          height |-> IF i = 0 THEN I(CANVAS_H) ELSE os[i].h,
          orientation |-> "landscape" ]
getA3Region(os) ==
    LET i == FindIdx(os, PAGE_NAME)
    IN  IF i = 0 THEN None
        ELSE [ found |-> TRUE, left |-> os[i].left, top |-> os[i].top,
               width |-> os[i].w, height |-> os[i].h,
               orientation |-> IF RLe(os[i].h, os[i].w) THEN "landscape" ELSE "portrait" ]

\* raster pixels at which a raster is observed
SamplePx == << << 1, 1 >>, << 230, 230 >> >>
Background == [ type |-> "canvas", src |-> "", angle |-> 0 ]
Covers(o, w) ==
    /\ RLe(o.left, w[1]) /\ RLe(w[1], RAdd(o.left, o.w))
    /\ RLe(o.top, w[2]) /\ RLe(w[2], RAdd(o.top, o.h))
\* what is drawn at world point w: the frontmost object covering it
Paint(os, w) ==
    LET hit == { i \in DOMAIN os : Covers(os[i], w) }
    IN  IF hit = {} THEN Background
        ELSE LET top == CHOOSE i \in hit : \A j \in hit : j <= i
             IN  [ type |-> os[top].type, src |-> os[top].src, angle |-> os[top].angle ]

\* Fabric's canvas.toDataURL({left, top, width, height, multiplier}): the canvas is
\* drawn with the transform [zoom*m, 0, 0, zoom*m, (tx - left)*m, (ty - top)*m] onto
\* a (width*m) x (height*m) bitmap, where zoom, tx, ty are the viewport's own
\* (the device pixel ratio, which enableRetinaScaling multiplies m by, is 1)
exportTransform(t, left, top, m) ==
    [ s |-> RMul(t.s, I(m)),
      tx |-> RMul(RSub(t.tx, left), I(m)),
      ty |-> RMul(RSub(t.ty, top), I(m)) ]
\* the world points drawn at the sample pixels
SampleWorld(nv) == [ k \in DOMAIN SamplePx |-> toWorld(RPt(SamplePx[k]), nv) ]
toDataURL(os, t, left, top, width, height, m) ==
    LET sw == SampleWorld(exportTransform(t, left, top, m))
    IN  [ w |-> RMul(width, I(m)), h |-> RMul(height, I(m)),
          px |-> [ k \in DOMAIN SamplePx |-> Paint(os, sw[k]) ] ]

\* no PDF document has been made
NoPdf == [ page |-> << 0, 0 >>, image |-> << 0, 0, 0, 0 >> ]
\* toPageDataUrl: the raster of the page region, NoRaster when the page is not found
NoRaster == [ w |-> I(0), h |-> I(0), px |-> [ k \in DOMAIN SamplePx |-> Background ] ]
toPageDataUrl(os, t) ==
    LET region == getA3Region(os)
    IN  IF ~region.found THEN NoRaster
        ELSE toDataURL(os, t, region.left, region.top, region.width, region.height,
                       EXPORT_MULTIPLIER)
\* the sample points of an export are representable
CanSample(os, t) ==
    LET region == getA3Region(os)
        sw == SampleWorld(exportTransform(t, region.left, region.top, EXPORT_MULTIPLIER))
    IN  region.found => \A k \in DOMAIN SamplePx : IsR(sw[k][1]) /\ IsR(sw[k][2])

(***************************************************************************)
(* Initial state: the canvas has been created with the identity viewport,  *)
(* the page rectangle added, and the first fit requested for the next      *)
(* animation frame.                                                        *)
(***************************************************************************)
IdentityVpt == [ s |-> I(1), tx |-> I(0), ty |-> I(0) ]
NoClick == [ target |-> 0, startX |-> 0, startY |-> 0, moved |-> FALSE, shiftKey |-> FALSE ]
NoXform == [ id |-> 0, ox |-> I(0), oy |-> I(0) ]
NoGesture == [ tgt |-> 0, start |-> NoPt, space |-> FALSE, shift |-> FALSE,
               far |-> FALSE, farAxis |-> FALSE, angle0 |-> 0, left0 |-> I(0), top0 |-> I(0),
               w0 |-> << I(0), I(0) >> ]

Init ==
    /\ vpt = IdentityVpt
    /\ objs = << pageRect(1) >>
    /\ active = 0
    /\ nextId = 2
    /\ isSpaceDown = FALSE
    /\ isDragging = FALSE
    /\ selection = TRUE
    /\ lastPos = NoPt
    /\ clickState = NoClick
    /\ ptr = << 100, 100 >>
    /\ btnDown = FALSE
    /\ xform = NoXform
    /\ rafFit = 1
    /\ docs = << >>
    /\ drops = {}
    /\ uploads = {}
    /\ loads = {}
    /\ exported = NoRaster
    /\ jobs = {}
    /\ pdf = NoPdf
    /\ alert = ""
    /\ toolbar = [ visible |-> TRUE, x |-> 12, y |-> 12, dragging |-> FALSE,
                   startX |-> 0, startY |-> 0, originX |-> 12, originY |-> 12 ]
    /\ ev = Ev("init", NoPt, I(0), 0, FALSE)
    /\ gesture = NoGesture
    /\ nView = 0
    /\ nDown = 0

(***************************************************************************)
(* Viewport controller.                                                    *)
(***************************************************************************)
RepVpt(t) == IsR(t.s) /\ IsR(t.tx) /\ IsR(t.ty)

\* a pan along x only
panByX(t, dx, dy) == [ s |-> t.s, tx |-> RAdd(t.tx, I(dx)), ty |-> t.ty ]
panBy(t, dx, dy) == [ s |-> t.s, tx |-> RAdd(t.tx, I(dx)), ty |-> RAdd(t.ty, I(dy)) ]

\* a zoom about the canvas origin
zoomToOrigin(t, z) == zoomToPoint(t, RPt(<< 0, 0 >>), clamp(z, MIN_ZOOM, MAX_ZOOM))
zoomTo(t, z) == zoomToPoint(t, RPt(CENTER), clamp(z, MIN_ZOOM, MAX_ZOOM))

\* the toolbar's pan buttons: panBy(0, PAN_STEP), panBy(PAN_STEP, 0), ...
PanDirs == { << 0, 1 >>, << 0, -1 >>, << 1, 0 >>, << -1, 0 >> }
PanButton(d) ==
    /\ nView < MaxView
    /\ RepVpt(panBy(vpt, d[1] * PAN_STEP, d[2] * PAN_STEP))
    /\ vpt' = panBy(vpt, d[1] * PAN_STEP, d[2] * PAN_STEP)
    /\ ev' = Ev("panBy", << d[1] * PAN_STEP, d[2] * PAN_STEP >>, I(0), 0, FALSE)
    /\ alert' = ""
    /\ UNCHANGED << pdf, toolbar >>
    /\ nView' = nView + 1
    /\ UNCHANGED << objs, active, nextId, gestureVars, rafFit, docs, asyncVars, exported, jobs, nDown >>

\* the toolbar's zoom buttons: zoomBy(0.2) and zoomBy(-0.2)
ZoomDeltas == { Q(1, 5), Q(-1, 5) }
ZoomButton(delta) ==
    /\ nView < MaxView
    /\ RepVpt(zoomTo(vpt, RAdd(getZoom, delta)))
    /\ vpt' = zoomTo(vpt, RAdd(getZoom, delta))
    /\ ev' = Ev("zoomBy", CENTER, RAdd(getZoom, delta), 0, FALSE)
    /\ alert' = ""
    /\ UNCHANGED << pdf, toolbar >>
    /\ nView' = nView + 1
    /\ UNCHANGED << objs, active, nextId, gestureVars, rafFit, docs, asyncVars, exported, jobs, nDown >>

\* the toolbar's Fit button
FitButton ==
    /\ nView < MaxView
    /\ vpt' = fitTransform
    /\ ev' = Ev("fit", NoPt, I(0), 0, FALSE)
    /\ alert' = ""
    /\ UNCHANGED << pdf, toolbar >>
    /\ nView' = nView + 1
    /\ UNCHANGED << objs, active, nextId, gestureVars, rafFit, docs, asyncVars, exported, jobs, nDown >>

\* a frame in which fitToA3Page finds no canvas and returns
AnimationFrameNoCanvas ==
    /\ rafFit > 0
    /\ rafFit' = rafFit - 1
    /\ ev' = Ev("rafFit", NoPt, I(0), 0, FALSE)
    /\ alert' = ""
    /\ UNCHANGED << pdf, toolbar >>
    /\ UNCHANGED << vpt, objs, active, nextId, gestureVars, docs, asyncVars, exported, jobs, nView, nDown >>

\* a requested animation frame runs fitToA3Page
AnimationFrame ==
    /\ rafFit > 0
    /\ rafFit' = rafFit - 1
    /\ vpt' = fitTransform
    /\ ev' = Ev("rafFit", NoPt, I(0), 0, FALSE)
    /\ alert' = ""
    /\ UNCHANGED << pdf, toolbar >>
    /\ UNCHANGED << objs, active, nextId, gestureVars, docs, asyncVars, exported, jobs, nView, nDown >>

\* mouse:wheel with the pointer at ptr
wheelTarget(deltaY) == RMul(getZoom, Pow999(deltaY))
\* a wheel handler that stands back while a button is held
handleWheelZoomIdle(deltaY) ==
    /\ nView < MaxView
    /\ RepVpt(zoomToPoint(vpt, RPt(ptr), clamp(wheelTarget(deltaY), MIN_ZOOM, MAX_ZOOM)))
    /\ vpt' = IF btnDown THEN vpt
              ELSE zoomToPoint(vpt, RPt(ptr), clamp(wheelTarget(deltaY), MIN_ZOOM, MAX_ZOOM))
    /\ ev' = Ev("wheel", ptr, wheelTarget(deltaY), deltaY, FALSE)
    /\ alert' = ""
    /\ UNCHANGED << pdf, toolbar >>
    /\ nView' = nView + 1
    /\ UNCHANGED << objs, active, nextId, gestureVars, rafFit, docs, asyncVars, exported, jobs, nDown >>
handleWheelZoom(deltaY) ==
    /\ nView < MaxView
    /\ RepVpt(zoomToPoint(vpt, RPt(ptr), clamp(wheelTarget(deltaY), MIN_ZOOM, MAX_ZOOM)))
    /\ vpt' = zoomToPoint(vpt, RPt(ptr), clamp(wheelTarget(deltaY), MIN_ZOOM, MAX_ZOOM))
    /\ ev' = [ Ev("wheel", ptr, wheelTarget(deltaY), deltaY, FALSE) EXCEPT !.prevented = TRUE ]
    /\ alert' = ""
    /\ UNCHANGED << pdf, toolbar >>
    /\ nView' = nView + 1
    /\ UNCHANGED << objs, active, nextId, gestureVars, rafFit, docs, asyncVars, exported, jobs, nDown >>

(***************************************************************************)
(* Downloads.                                                              *)
(***************************************************************************)
ALERT_NO_PAGE == "A3 page not found (PAGE_NAME mismatch)."
ALERT_NO_JSPDF == "PDF export needs jsPDF. Run: npm i jspdf"
ALERT_NO_JSPDF_PRINT == "Print needs jsPDF. Run: npm i jspdf"
ALERT_POPUP == "Popup blocked. Allow popups to print."

\* what getA3Region reports on the way
regionAlert(os) == IF getA3Region(os).found THEN "" ELSE ALERT_NO_PAGE

\* handleDownloadPng: nothing is downloaded when toPageDataUrl returns null
handleDownloadPng ==
    /\ CanSample(objs, vpt)
    /\ IF toPageDataUrl(objs, vpt) # NoRaster
       THEN /\ exported' = toPageDataUrl(objs, vpt)
            /\ ev' = Ev("export", NoPt, I(0), 0, FALSE)
       ELSE /\ UNCHANGED exported
            /\ ev' = Ev("exportFailed", NoPt, I(0), 0, TRUE)
    /\ alert' = regionAlert(objs)
    /\ UNCHANGED << pdf, toolbar >>
    /\ UNCHANGED << vpt, objs, active, nextId, gestureVars, rafFit, docs, asyncVars, jobs,
                    nView, nDown >>

handleDownloadJpeg ==
    /\ CanSample(objs, vpt)
    /\ IF toPageDataUrl(objs, vpt) # NoRaster
       THEN /\ exported' = toPageDataUrl(objs, vpt)
            /\ ev' = Ev("exportJpeg", NoPt, I(0), 0, FALSE)
       ELSE /\ UNCHANGED exported
            /\ ev' = Ev("exportFailed", NoPt, I(0), 0, TRUE)
    /\ alert' = regionAlert(objs)
    /\ UNCHANGED << pdf, toolbar >>
    /\ UNCHANGED << vpt, objs, active, nextId, gestureVars, rafFit, docs, asyncVars, jobs,
                    nView, nDown >>

\* an export waiting for import("jspdf"): the raster and the orientation were
\* taken when it was requested
Job(kind, os, t) ==
    [ kind |-> kind, dataUrl |-> toPageDataUrl(os, t),
      orientation |-> getA3Region(os).orientation ]

\* handleDownloadPdf, up to the await of the encoder module
handleDownloadPdf ==
    /\ CanSample(objs, vpt)
    /\ IF getA3Region(objs).found /\ toPageDataUrl(objs, vpt) # NoRaster
       THEN /\ Cardinality(jobs) < MaxJobs
            /\ jobs' = jobs \cup { Job("pdf", objs, vpt) }
            /\ ev' = Ev("exportPdf", NoPt, I(0), 0, FALSE)
       ELSE /\ UNCHANGED jobs
            /\ ev' = Ev("exportFailed", NoPt, I(0), 0, TRUE)
    /\ alert' = regionAlert(objs)
    /\ UNCHANGED << pdf, toolbar >>
    /\ UNCHANGED << vpt, objs, active, nextId, gestureVars, rafFit, docs, asyncVars, exported,
                    nView, nDown >>

\* handlePrint, up to the await of the encoder module; popup: window.open gave a window
handlePrint(popup) ==
    /\ CanSample(objs, vpt)
    /\ IF getA3Region(objs).found /\ toPageDataUrl(objs, vpt) # NoRaster
       THEN IF popup
            THEN /\ Cardinality(jobs) < MaxJobs
                 /\ jobs' = jobs \cup { Job("print", objs, vpt) }
                 /\ ev' = Ev("print", NoPt, I(0), 0, FALSE)
                 /\ alert' = ""
                 /\ UNCHANGED << pdf, toolbar >>
            ELSE /\ UNCHANGED jobs
                 /\ ev' = Ev("printBlocked", NoPt, I(0), 0, TRUE)
                 /\ alert' = ALERT_POPUP
                 /\ UNCHANGED << pdf, toolbar >>
       ELSE /\ UNCHANGED jobs
            /\ ev' = Ev("exportFailed", NoPt, I(0), 0, TRUE)
            /\ alert' = regionAlert(objs)
            /\ UNCHANGED << pdf, toolbar >>
    /\ UNCHANGED << vpt, objs, active, nextId, gestureVars, rafFit, docs, asyncVars, exported,
                    nView, nDown >>

\* pageWmm, pageHmm: 420 x 297 for a landscape region, 297 x 420 otherwise
pageMm(orientation) == IF orientation = "landscape" THEN << 420, 297 >> ELSE << 297, 420 >>
\* new jsPDF({ unit: "mm", format }): the page of the document. The handlers
\* name no orientation, so it is jsPDF's default "p", and jsPDF turns a format
\* that does not agree with the orientation
jsPDF(format, orientation) ==
    IF \/ orientation = "p" /\ format[1] > format[2]
       \/ orientation = "l" /\ format[2] > format[1]
    THEN << format[2], format[1] >>
    ELSE format

\* an encoder that draws the page anew when the module has loaded
addImageFresh(j) == toPageDataUrl(objs, vpt)
\* pdf.addImage(dataUrl, ...): the image put on the PDF page
addImage(j) == j.dataUrl

\* the encoder module has loaded: the PDF is saved, or shown in the opened tab
jsPdfLoaded(j) ==
    /\ j \in jobs
    /\ jobs' = jobs \ { j }
    /\ exported' = addImage(j)
    /\ pdf' = [ page |-> jsPDF(pageMm(j.orientation), "p"),
                image |-> << 0, 0, pageMm(j.orientation)[1], pageMm(j.orientation)[2] >> ]
    /\ ev' = Ev(IF j.kind = "pdf" THEN "pdfSaved" ELSE "printed", NoPt, I(0), 0, FALSE)
    /\ alert' = ""
    /\ UNCHANGED toolbar
    /\ UNCHANGED << vpt, objs, active, nextId, gestureVars, rafFit, docs, asyncVars, nView,
                    nDown >>

\* import("jspdf") was rejected, or the encoder threw
jsPdfFailed(j) ==
    /\ j \in jobs
    /\ jobs' = jobs \ { j }
    /\ ev' = Ev("encoderFailed", NoPt, I(0), 0, TRUE)
    /\ alert' = IF j.kind = "pdf" THEN ALERT_NO_JSPDF ELSE ALERT_NO_JSPDF_PRINT
    /\ UNCHANGED << pdf, toolbar >>
    /\ UNCHANGED << vpt, objs, active, nextId, gestureVars, rafFit, docs, asyncVars, exported,
                    nView, nDown >>

(***************************************************************************)
(* The navigation toolbar.  Showing, hiding and moving it sets React state, *)
(* and the component renders again; after a render React runs an effect     *)
(* again when one of its dependencies has changed.                          *)
(***************************************************************************)
\* a fit whose padding depends on the toolbar being shown
fitToA3PageDepsPadded(tb) == << MIN_ZOOM, MAX_ZOOM, tb.visible >>
\* the dependencies of useCallback(fitToA3Page, [MIN_ZOOM, MAX_ZOOM]): the
\* callback of a render with toolbar state tb is a new function exactly when
\* they differ from those of the render before
fitToA3PageDeps(tb) == << MIN_ZOOM, MAX_ZOOM >>

\* a render with toolbar state tb. The effect that creates the canvas depends on
\* [MIN_ZOOM, MAX_ZOOM, fitToA3Page]; when it runs again its cleanup disposes the
\* canvas, and a new canvas is made with the page alone and a fit requested
Render(tb) ==
    IF << MIN_ZOOM, MAX_ZOOM, fitToA3PageDeps(tb) >>
         # << MIN_ZOOM, MAX_ZOOM, fitToA3PageDeps(toolbar) >>
    THEN /\ nextId <= MaxIds
         /\ vpt' = IdentityVpt
         /\ objs' = << pageRect(nextId) >>
         /\ nextId' = nextId + 1
         /\ active' = 0
         /\ isDragging' = FALSE
         /\ selection' = TRUE
         /\ lastPos' = NoPt
         /\ clickState' = NoClick
         /\ xform' = NoXform
         /\ gesture' = NoGesture
         /\ rafFit' = rafFit + 1
    ELSE UNCHANGED << vpt, objs, nextId, active, isDragging, selection, lastPos, clickState,
                      xform, gesture, rafFit >>

\* the Nav button (v => !v) and the toolbar's close button (false)
setToolbarVisible(v) ==
    /\ v = ~toolbar.visible \/ (toolbar.visible /\ ~v)
    /\ toolbar' = [ toolbar EXCEPT !.visible = v ]
    /\ Render([ toolbar EXCEPT !.visible = v ])
    /\ ev' = Ev("toolbarVisible", NoPt, I(0), 0, v)
    /\ alert' = ""
    /\ UNCHANGED << pdf, isSpaceDown, ptr, btnDown, docs, asyncVars, exported, jobs, nView, nDown >>

\* mousedown on the toolbar at p; onButton: on one of its buttons
onToolbarMouseDown(p, onButton) ==
    /\ toolbar.visible
    /\ ~btnDown
    /\ Abs(toolbar.x - 12) < MaxToolbar /\ Abs(toolbar.y - 12) < MaxToolbar
    /\ toolbar' = IF onButton THEN toolbar
                  ELSE [ toolbar EXCEPT !.dragging = TRUE, !.startX = p[1], !.startY = p[2],
                                        !.originX = toolbar.x, !.originY = toolbar.y ]
    /\ ev' = [ Ev("toolbarDown", p, I(0), 0, onButton) EXCEPT !.prevented = ~onButton ]
    /\ alert' = ""
    /\ UNCHANGED << pdf, vpt, objs, active, nextId, gestureVars, rafFit, docs, asyncVars, exported,
                    jobs, nView, nDown >>

\* the window's mousemove listener: setToolbarPos while the toolbar is dragged
onMove(p) ==
    IF toolbar.dragging
    THEN [ toolbar EXCEPT !.x = toolbar.originX + (p[1] - toolbar.startX),
                          !.y = toolbar.originY + (p[2] - toolbar.startY) ]
    ELSE toolbar

\* the pointer moves to p over the toolbar or elsewhere off the canvas
ToolbarMouseMove(p) ==
    /\ ~btnDown
    /\ toolbar' = onMove(p)
    /\ Render(onMove(p))
    /\ ev' = Ev("toolbarMove", p, I(0), 0, ~toolbar.dragging)
    /\ alert' = ""
    /\ UNCHANGED << pdf, isSpaceDown, ptr, btnDown, docs, asyncVars, exported, jobs, nView, nDown >>

\* the window's mouseup listener, the button released off the canvas
onUp ==
    /\ ~btnDown
    /\ toolbar' = [ toolbar EXCEPT !.dragging = FALSE ]
    /\ ev' = Ev("toolbarUp", NoPt, I(0), 0, FALSE)
    /\ alert' = ""
    /\ UNCHANGED << pdf, vpt, objs, active, nextId, gestureVars, rafFit, docs, asyncVars, exported,
                    jobs, nView, nDown >>

(***************************************************************************)
(* Pointer gestures.  Fabric's own handling of a pointer event (selecting  *)
(* the object under the pointer, dragging it) comes first, then the        *)
(* handlers the component registered, in registration order.               *)
(***************************************************************************)
IsIn(os, id) == id \in Ids(os)
SetObj(os, id, o) == [ i \in DOMAIN os |-> IF os[i].id = id THEN o ELSE os[i] ]

\* a rotate gate that forgets the modifier of the pointer-down
rotateGateDownLoose(tgt, shift) ==
    [ target |-> tgt, startX |-> ptr[1], startY |-> ptr[2], moved |-> FALSE,
      shiftKey |-> FALSE ]
\* mouse:down with the pointer over `tgt` (0: over nothing)
onMouseDownRotateGate(tgt, shift) ==
    [ target |-> tgt, startX |-> ptr[1], startY |-> ptr[2], moved |-> FALSE,
      shiftKey |-> shift ]

MouseDown(tgt, shift) ==
    /\ ~btnDown
    /\ nDown < MaxDowns
    /\ tgt \in Targets
    /\ btnDown' = TRUE
    \* Fabric: a selectable target becomes the active object and starts a drag
    /\ IF tgt # 0 /\ ById(objs, tgt).selectable
       THEN LET w == toWorld(RPt(ptr), vpt)
                o == ById(objs, tgt)
            IN  /\ IsR(RSub(w[1], o.left)) /\ IsR(RSub(w[2], o.top))
                /\ active' = tgt
                /\ xform' = [ id |-> tgt, ox |-> RSub(w[1], o.left), oy |-> RSub(w[2], o.top) ]
       ELSE active' = 0 /\ xform' = NoXform
    /\ clickState' = onMouseDownRotateGate(tgt, shift)
    \* handleMouseDownPan
    /\ IF tgt = 0 \/ isSpaceDown
       THEN isDragging' = TRUE /\ selection' = FALSE /\ lastPos' = ptr
       ELSE UNCHANGED << isDragging, selection, lastPos >>
    /\ gesture' = [ tgt |-> tgt, start |-> ptr, space |-> isSpaceDown, shift |-> shift,
                    far |-> FALSE, farAxis |-> FALSE,
                    angle0 |-> IF tgt = 0 THEN 0 ELSE ById(objs, tgt).angle,
                    left0 |-> IF tgt = 0 THEN I(0) ELSE ById(objs, tgt).left,
                    top0 |-> IF tgt = 0 THEN I(0) ELSE ById(objs, tgt).top,
                    w0 |-> toWorld(RPt(ptr), vpt) ]
    /\ ev' = Ev("mouseDown", ptr, I(0), tgt, shift)
    /\ alert' = ""
    /\ UNCHANGED << pdf, toolbar >>
    /\ nDown' = nDown + 1
    /\ UNCHANGED << vpt, objs, nextId, isSpaceDown, ptr, rafFit, docs, asyncVars,
                    exported, jobs, nView >>

\* mouse:move to device point p
onMouseMoveRotateGate(p) ==
    IF clickState.target = 0 THEN clickState
    ELSE IF Abs(p[1] - clickState.startX) > CLICK_MOVE_THRESHOLD
            \/ Abs(p[2] - clickState.startY) > CLICK_MOVE_THRESHOLD
         THEN [ clickState EXCEPT !.moved = TRUE ]
         ELSE clickState

\* a pan measured from where the pointer went down
handleMouseMovePanFromDown(p) ==
    IF isDragging
    THEN panBy(vpt, p[1] - clickState.startX, p[2] - clickState.startY)
    ELSE vpt
handleMouseMovePan(p) ==
    IF isDragging THEN panBy(vpt, p[1] - lastPos[1], p[2] - lastPos[2]) ELSE vpt

\* Fabric: the object of the drag in progress follows the pointer
dragObject(p) ==
    IF btnDown /\ xform.id # 0 /\ IsIn(objs, xform.id)
    THEN LET w == toWorld(RPt(p), vpt)
             o == ById(objs, xform.id)
         IN  SetObj(objs, xform.id,
                    [ o EXCEPT !.left = RSub(w[1], xform.ox), !.top = RSub(w[2], xform.oy) ])
    ELSE objs

RepObjs(os) == \A i \in DOMAIN os : IsR(os[i].left) /\ IsR(os[i].top)

MouseMove(p) ==
    /\ p # ptr
    /\ ptr' = p
    /\ RepObjs(dragObject(p)) /\ RepVpt(handleMouseMovePan(p))
    /\ objs' = dragObject(p)
    /\ clickState' = onMouseMoveRotateGate(p)
    /\ vpt' = handleMouseMovePan(p)
    /\ lastPos' = IF isDragging THEN p ELSE lastPos
    /\ (vpt' # vpt \/ objs' # objs) => nView < MaxView
    /\ nView' = IF vpt' # vpt \/ objs' # objs THEN nView + 1 ELSE nView
    /\ gesture' = IF ~btnDown THEN gesture
                  ELSE [ gesture EXCEPT
                           !.far = @ \/ (p[1] - gesture.start[1]) * (p[1] - gesture.start[1])
                                        + (p[2] - gesture.start[2]) * (p[2] - gesture.start[2])
                                        > CLICK_MOVE_THRESHOLD * CLICK_MOVE_THRESHOLD,
                           !.farAxis = @ \/ Abs(p[1] - gesture.start[1]) > CLICK_MOVE_THRESHOLD
                                          \/ Abs(p[2] - gesture.start[2]) > CLICK_MOVE_THRESHOLD ]
    /\ ev' = Ev("mouseMove", p, I(0), 0, FALSE)
    /\ alert' = ""
    \* the window's mousemove listener
    /\ toolbar' = onMove(p)
    /\ UNCHANGED pdf
    /\ UNCHANGED << active, nextId, isSpaceDown, isDragging, selection, btnDown, xform,
                    rafFit, docs, asyncVars, exported, jobs, nDown >>

\* target.rotate((angle + delta + 360) % 360); the icons are square, so that a
\* quarter turn about the centre leaves the box { left, top, w, h } in place
\* a turn that is not brought back into the circle
rotateRaw(angle, shiftKey) == angle + (IF shiftKey THEN -90 ELSE 90)
rotate(angle, shiftKey) == (angle + (IF shiftKey THEN -90 ELSE 90) + 360) % 360
\* a rotate gate that forgets the movement
rotatesLoose(tgt) ==
    /\ clickState.target # 0
    /\ tgt = clickState.target
    /\ ById(objs, tgt).type = "image"
    /\ ById(objs, tgt).name # PDF_NAME
rotates(tgt) ==
    /\ clickState.target # 0
    /\ tgt = clickState.target
    /\ ~clickState.moved
    /\ ById(objs, tgt).type = "image"
    /\ ById(objs, tgt).name # PDF_NAME

onMouseUpRotateGate(tgt) ==
    IF rotates(tgt)
    THEN SetObj(objs, tgt, [ ById(objs, tgt) EXCEPT !.angle = rotate(@, clickState.shiftKey) ])
    ELSE objs

\* mouse:up with the pointer over `tgt`; shiftKey is the modifier's state at that
\* moment, which no handler reads
MouseUp(tgt, shiftKey) ==
    /\ btnDown
    /\ tgt \in Targets
    /\ btnDown' = FALSE
    /\ xform' = NoXform
    /\ objs' = onMouseUpRotateGate(tgt)
    \* handleMouseUpPan
    /\ isDragging' = FALSE
    /\ selection' = TRUE
    /\ ev' = Ev("mouseUp", ptr, I(0), tgt, shiftKey)
    /\ alert' = ""
    \* the window's mouseup listener
    /\ toolbar' = [ toolbar EXCEPT !.dragging = FALSE ]
    /\ UNCHANGED pdf
    /\ gesture' = NoGesture
    /\ UNCHANGED << vpt, active, nextId, isSpaceDown, lastPos, clickState, ptr, rafFit, docs,
                    asyncVars, exported, jobs, nView, nDown >>

\* mouse:up with no mouse:down before it. Fabric listens for mouseup on the
\* document from the mousedown of any button on the canvas, and fires mouse:down
\* and mouse:up for the main button only: the main button pressed elsewhere and
\* released over the canvas after another button went down on it is a mouse:up
\* on its own. The handlers run as for every mouse:up
MouseUpUnpaired(tgt) ==
    /\ ~btnDown
    /\ tgt \in Targets
    /\ objs' = onMouseUpRotateGate(tgt)
    \* handleMouseUpPan
    /\ isDragging' = FALSE
    /\ selection' = TRUE
    /\ ev' = Ev("mouseUpUnpaired", ptr, I(0), tgt, FALSE)
    /\ alert' = ""
    \* the window's mouseup listener
    /\ toolbar' = [ toolbar EXCEPT !.dragging = FALSE ]
    /\ UNCHANGED pdf
    /\ UNCHANGED << vpt, active, nextId, isSpaceDown, lastPos, clickState, ptr, btnDown, xform,
                    gesture, rafFit, docs, asyncVars, exported, jobs, nView, nDown >>

(***************************************************************************)
(* Keyboard.                                                               *)
(***************************************************************************)
KeySpaceDown ==
    /\ ~isSpaceDown
    /\ isSpaceDown' = TRUE
    /\ ev' = Ev("spaceDown", NoPt, I(0), 0, FALSE)
    /\ alert' = ""
    /\ UNCHANGED << pdf, toolbar >>
    /\ UNCHANGED << vpt, objs, active, nextId, isDragging, selection, lastPos, clickState, ptr,
                    btnDown, xform, rafFit, docs, asyncVars, exported, jobs, gesture, nView, nDown >>

\* a release of Space that ends the pan
KeySpaceUpCancels ==
    /\ isSpaceDown
    /\ isSpaceDown' = FALSE
    /\ isDragging' = FALSE
    /\ selection' = TRUE
    /\ ev' = Ev("spaceUp", NoPt, I(0), 0, FALSE)
    /\ alert' = ""
    /\ UNCHANGED << pdf, toolbar >>
    /\ UNCHANGED << vpt, objs, active, nextId, lastPos, clickState, ptr,
                    btnDown, xform, rafFit, docs, asyncVars, exported, jobs, gesture, nView, nDown >>

KeySpaceUp ==
    /\ isSpaceDown
    /\ isSpaceDown' = FALSE
    /\ ev' = Ev("spaceUp", NoPt, I(0), 0, FALSE)
    /\ alert' = ""
    /\ UNCHANGED << pdf, toolbar >>
    /\ UNCHANGED << vpt, objs, active, nextId, isDragging, selection, lastPos, clickState, ptr,
                    btnDown, xform, rafFit, docs, asyncVars, exported, jobs, gesture, nView, nDown >>

\* Delete or Backspace; isTyping: the key went to an input, textarea or editable element
deletable(os, a) ==
    /\ a # 0
    /\ ById(os, a).name # PAGE_NAME
    /\ ById(os, a).name # PDF_NAME

\* a Delete that does not look at where the key went
KeyDeleteAnywhere(isTyping) ==
    /\ IF deletable(objs, active)
       THEN objs' = Without(objs, active) /\ active' = 0
       ELSE UNCHANGED << objs, active >>
    /\ ev' = [ Ev("delete", NoPt, I(0), active, isTyping)
                EXCEPT !.prevented = deletable(objs, active) ]
    /\ alert' = ""
    /\ UNCHANGED << pdf, toolbar >>
    /\ UNCHANGED << vpt, nextId, gestureVars, rafFit, docs, asyncVars, exported, jobs, nView, nDown >>

KeyDelete(isTyping) ==
    /\ IF ~isTyping /\ deletable(objs, active)
       THEN objs' = Without(objs, active) /\ active' = 0
       ELSE UNCHANGED << objs, active >>
    /\ ev' = [ Ev("delete", NoPt, I(0), active, isTyping)
                EXCEPT !.prevented = ~isTyping /\ deletable(objs, active) ]
    /\ alert' = ""
    /\ UNCHANGED << pdf, toolbar >>
    /\ UNCHANGED << vpt, nextId, gestureVars, rafFit, docs, asyncVars, exported, jobs, nView, nDown >>

\* arrow keys: ArrowUp panBy(0, step), ArrowDown panBy(0, -step), ArrowLeft
\* panBy(step, 0), ArrowRight panBy(-step, 0)
\* a step that does not look at Shift
arrowStepFlat(shiftKey) == 35
arrowStep(shiftKey) == IF shiftKey THEN 80 ELSE 35
KeyArrow(d, shiftKey, isTyping) ==
    /\ ~isTyping => nView < MaxView
    /\ RepVpt(panBy(vpt, d[1] * arrowStep(shiftKey), d[2] * arrowStep(shiftKey)))
    /\ vpt' = IF isTyping THEN vpt
              ELSE panBy(vpt, d[1] * arrowStep(shiftKey), d[2] * arrowStep(shiftKey))
    /\ nView' = IF isTyping THEN nView ELSE nView + 1
    /\ ev' = [ Ev("arrow", d, I(0), IF shiftKey THEN 1 ELSE 0, isTyping)
                EXCEPT !.prevented = ~isTyping ]
    /\ alert' = ""
    /\ UNCHANGED << pdf, toolbar >>
    /\ UNCHANGED << objs, active, nextId, gestureVars, rafFit, docs, asyncVars, exported, jobs, nDown >>

(***************************************************************************)
(* Icon drop.                                                              *)
(***************************************************************************)
\* the icon images are taken to be square: scaled to TARGET_WIDTH they are
\* TARGET_WIDTH high
icon(id, src, w) ==
    Obj(id, "image", NO_NAME, src, w[1], w[2], I(TARGET_WIDTH), I(TARGET_WIDTH), 0, TRUE, TRUE)

\* a placement worked out when the image has loaded
dropWorldLate(d) == toWorld(RPt(d.p), vpt)
\* the point onDrop places the icon at: `world`, taken before the await
dropWorld(d) == d.world

\* drop at device point p with payload src: the world point is computed now,
\* the icon is added when its image has loaded
onDropStart(p, src) ==
    /\ IF src = ""
       THEN UNCHANGED << drops, nextId >>
       ELSE /\ nextId <= MaxIds
            /\ Cardinality(drops) + Cardinality({ i \in DOMAIN objs : objs[i].src \in IconSrcs })
                 < MaxIcons
            /\ IsR(toWorld(RPt(p), vpt)[1]) /\ IsR(toWorld(RPt(p), vpt)[2])
            /\ drops' = drops \cup { [ id |-> nextId, src |-> src,
                                       world |-> toWorld(RPt(p), vpt), p |-> p, t |-> vpt ] }
            /\ nextId' = nextId + 1
    /\ ev' = Ev("drop", p, I(0), 0, src = "")
    /\ alert' = ""
    /\ UNCHANGED << pdf, toolbar >>
    /\ UNCHANGED << vpt, objs, active, gestureVars, rafFit, docs, uploads, loads, exported, jobs,
                    nView, nDown >>

onDropLoaded(d) ==
    /\ d \in drops
    /\ drops' = drops \ { d }
    /\ objs' = Append(objs, icon(d.id, d.src, dropWorld(d)))
    /\ active' = d.id
    /\ ev' = Ev("dropLoaded", NoPt, I(0), d.id, FALSE)
    /\ alert' = ""
    /\ UNCHANGED << pdf, toolbar >>
    /\ UNCHANGED << vpt, nextId, gestureVars, rafFit, docs, uploads, loads, exported, jobs, nView, nDown >>

(***************************************************************************)
(* PDF upload.                                                             *)
(***************************************************************************)
\* Fabric: removing the active object discards the selection
RemoveObj(os, a, id) == << Without(os, id), IF a = id THEN 0 ELSE a >>

\* a background put in the corner of the page
pdfObjectCorner(id, img) ==
    LET s == RMin(RDiv(I(A3_W_PX), I(img.w)), RDiv(I(A3_H_PX), I(img.h)))
    IN  Obj(id, "image", PDF_NAME, img.src, I(0), I(0), RMul(I(img.w), s), RMul(I(img.h), s),
            0, FALSE, FALSE)
pdfObject(id, img) ==
    LET s == RMin(RDiv(I(A3_W_PX), I(img.w)), RDiv(I(A3_H_PX), I(img.h)))
        pdfW == RMul(I(img.w), s)
        pdfH == RMul(I(img.h), s)
    IN  Obj(id, "image", PDF_NAME, img.src,
            RDiv(RSub(I(A3_W_PX), pdfW), I(2)), RDiv(RSub(I(A3_H_PX), pdfH), I(2)),
            pdfW, pdfH, 0, FALSE, FALSE)

\* an upload that takes whatever file it is given
handlePdfUploadStartAny(file) ==
    /\ nextId <= MaxIds
    /\ Cardinality(uploads) < MaxUploads
    /\ uploads' = uploads \cup { [ id |-> nextId, img |-> file ] }
    /\ nextId' = nextId + 1
    /\ ev' = Ev("upload", NoPt, I(0), nextId, FALSE)
    /\ alert' = ""
    /\ UNCHANGED << pdf, toolbar >>
    /\ UNCHANGED << vpt, objs, active, gestureVars, rafFit, docs, drops, loads, exported, jobs,
                    nView, nDown >>

\* a failure that has already taken the earlier background away
handlePdfUploadFailedLate(u) ==
    /\ u \in uploads
    /\ uploads' = uploads \ { u }
    /\ objs' = IF getPdfObj = 0 THEN objs ELSE Without(objs, objs[getPdfObj].id)
    /\ active' = IF getPdfObj # 0 /\ active = objs[getPdfObj].id THEN 0 ELSE active
    /\ ev' = Ev("uploadFailed", NoPt, I(0), u.id, TRUE)
    /\ alert' = "Failed to upload PDF."
    /\ UNCHANGED << pdf, toolbar >>
    /\ UNCHANGED << vpt, nextId, gestureVars, rafFit, docs, drops, loads, exported, jobs,
                    nView, nDown >>

handlePdfUploadStart(file) ==
    /\ IF file.type = "application/pdf"
       THEN /\ nextId <= MaxIds
            /\ Cardinality(uploads) < MaxUploads
            /\ uploads' = uploads \cup { [ id |-> nextId, img |-> file ] }
            /\ nextId' = nextId + 1
            /\ ev' = Ev("upload", NoPt, I(0), nextId, FALSE)
            /\ alert' = ""
            /\ UNCHANGED << pdf, toolbar >>
       ELSE /\ UNCHANGED << uploads, nextId >>
            /\ ev' = Ev("uploadRejected", NoPt, I(0), 0, TRUE)
            /\ alert' = "Please upload a valid PDF file."
            /\ UNCHANGED << pdf, toolbar >>
    /\ UNCHANGED << vpt, objs, active, gestureVars, rafFit, docs, drops, loads, exported, jobs,
                    nView, nDown >>

\* an upload that keeps the background that is there
handlePdfUploadLoadedKeeps(u) ==
    /\ u \in uploads
    /\ uploads' = uploads \ { u }
    /\ objs' = IF getPdfObj = 0 THEN Append(objs, pdfObject(u.id, u.img)) ELSE objs
    /\ UNCHANGED active
    /\ rafFit' = rafFit + 1
    /\ ev' = Ev("uploadLoaded", NoPt, I(0), u.id, FALSE)
    /\ alert' = ""
    /\ UNCHANGED << pdf, toolbar >>
    /\ UNCHANGED << vpt, nextId, gestureVars, docs, drops, loads, exported, jobs, nView, nDown >>

\* the rasterized page has been decoded into an image
handlePdfUploadLoaded(u) ==
    /\ u \in uploads
    /\ uploads' = uploads \ { u }
    /\ LET r1 == IF getPdfObj = 0 THEN << objs, active >>
                 ELSE RemoveObj(objs, active, objs[getPdfObj].id)
           pi == FindIdx(r1[1], PAGE_NAME)
           r2 == IF pi = 0 THEN r1
                 ELSE << Append(Without(r1[1], r1[1][pi].id), r1[1][pi]),
                         IF r1[2] = r1[1][pi].id THEN 0 ELSE r1[2] >>
       IN  /\ objs' = Append(r2[1], pdfObject(u.id, u.img))
           /\ active' = r2[2]
    /\ rafFit' = rafFit + 1
    /\ ev' = Ev("uploadLoaded", NoPt, I(0), u.id, FALSE)
    /\ alert' = ""
    /\ UNCHANGED << pdf, toolbar >>
    /\ UNCHANGED << vpt, nextId, gestureVars, docs, drops, loads, exported, jobs, nView, nDown >>

\* reading, parsing or rendering the PDF threw
handlePdfUploadFailed(u) ==
    /\ u \in uploads
    /\ uploads' = uploads \ { u }
    /\ ev' = Ev("uploadFailed", NoPt, I(0), u.id, TRUE)
    /\ alert' = "Failed to upload PDF."
    /\ UNCHANGED << pdf, toolbar >>
    /\ UNCHANGED << vpt, objs, active, nextId, gestureVars, rafFit, docs, drops, loads,
                    exported, jobs, nView, nDown >>

(***************************************************************************)
(* Saved documents.                                                        *)
(***************************************************************************)
\* canvas.toJSON(EXTRA_PROPS): Fabric's own serialized properties of each object,
\* with selectable and evented; `name` is not one of Fabric's serialized
\* properties and is not among EXTRA_PROPS, so it is not written
Serialized(o, name) ==
    [ type |-> o.type, name |-> name, src |-> o.src, left |-> o.left, top |-> o.top,
      w |-> o.w, h |-> o.h, angle |-> o.angle, selectable |-> o.selectable,
      evented |-> o.evented ]
toJSON(os) == [ i \in DOMAIN os |-> Serialized(os[i], NO_NAME) ]

\* a save that puts the document at the end of the list
handleSaveToLocalLast ==
    /\ Len(docs) < MaxDocs
    /\ docs' = docs \o << [ version |-> 1, fabricJson |-> toJSON(objs) ] >>
    /\ ev' = Ev("save", NoPt, I(0), 0, FALSE)
    /\ alert' = ""
    /\ UNCHANGED << pdf, toolbar >>
    /\ UNCHANGED << vpt, objs, active, nextId, gestureVars, rafFit, asyncVars, exported, jobs, nView, nDown >>

handleSaveToLocal ==
    /\ Len(docs) < MaxDocs
    /\ docs' = << [ version |-> 1, fabricJson |-> toJSON(objs) ] >> \o docs
    /\ ev' = Ev("save", NoPt, I(0), 0, FALSE)
    /\ alert' = ""
    /\ UNCHANGED << pdf, toolbar >>
    /\ UNCHANGED << vpt, objs, active, nextId, gestureVars, rafFit, asyncVars, exported, jobs, nView, nDown >>

\* Delete of the saved document at index i (the list is 1-based here)
handleDeleteSaved(i) ==
    /\ i \in DOMAIN docs
    /\ docs' = [ j \in 1..(Len(docs) - 1) |-> IF j < i THEN docs[j] ELSE docs[j + 1] ]
    /\ ev' = Ev("deleteSaved", NoPt, I(0), i, FALSE)
    /\ alert' = ""
    /\ UNCHANGED << pdf, toolbar >>
    /\ UNCHANGED << vpt, objs, active, nextId, gestureVars, rafFit, asyncVars, exported, jobs, nView, nDown >>

\* loadFromJSON: every serialized object becomes a new object with the
\* serialized properties
enliven(json, base) ==
    [ i \in DOMAIN json |->
        Obj(base + i - 1, json[i].type, json[i].name, json[i].src, json[i].left, json[i].top,
            json[i].w, json[i].h, json[i].angle, json[i].selectable, json[i].evented) ]

\* the pass over the objects once the JSON is loaded: everything is made
\* selectable and evented, then what is named A3_PAGE or PDF_PAGE is locked
reconcile(o) ==
    IF o.name = PAGE_NAME \/ o.name = PDF_NAME
    THEN [ o EXCEPT !.selectable = FALSE, !.evented = FALSE ]
    ELSE [ o EXCEPT !.selectable = TRUE, !.evented = TRUE ]

\* the classes loadFromJSON can build; any other type makes it reject
KnownTypes == { "rect", "image" }
Deserializable(json) == \A i \in DOMAIN json : json[i].type \in KnownTypes

\* Load of the saved document at index i: the canvas is cleared at once
handleLoadFromLocalStart(i) ==
    /\ i \in DOMAIN docs
    /\ nextId + Len(docs[i].fabricJson) - 1 <= MaxIds
    /\ objs' = << >>
    /\ active' = 0
    /\ loads' = loads \cup { [ json |-> docs[i].fabricJson, base |-> nextId, before |-> objs ] }
    /\ nextId' = nextId + Len(docs[i].fabricJson)
    /\ ev' = Ev("load", NoPt, I(0), i, FALSE)
    /\ alert' = ""
    /\ UNCHANGED << pdf, toolbar >>
    /\ UNCHANGED << vpt, gestureVars, rafFit, docs, drops, uploads, exported, jobs, nView, nDown >>

\* loadFromJSON has deserialized: the canvas holds the loaded objects, reconciled
handleLoadFromLocalLoaded(l) ==
    /\ l \in loads
    /\ Deserializable(l.json)
    /\ loads' = loads \ { l }
    /\ objs' = [ i \in DOMAIN l.json |-> reconcile(enliven(l.json, l.base)[i]) ]
    /\ active' = 0
    /\ ev' = Ev("loaded", NoPt, I(0), l.base, FALSE)
    /\ alert' = ""
    /\ UNCHANGED << pdf, toolbar >>
    /\ UNCHANGED << vpt, nextId, gestureVars, rafFit, docs, drops, uploads, exported, jobs, nView, nDown >>

\* loadFromJSON rejected: the promise it returned is dropped, the callback is
\* never called, and the promise handleLoadFromLocal awaits never settles
handleLoadFromLocalFailed(l) ==
    /\ l \in loads
    /\ ~Deserializable(l.json)
    /\ loads' = loads \ { l }
    /\ ev' = Ev("loadFailed", NoPt, I(0), l.base, TRUE)
    /\ alert' = ""
    /\ UNCHANGED << pdf, toolbar >>
    /\ UNCHANGED << vpt, objs, active, nextId, gestureVars, rafFit, docs, drops, uploads,
                    exported, jobs, nView, nDown >>

\* JavaScript values a parsed file can hold
Undefined == [ t |-> "undefined" ]
Null == [ t |-> "null" ]
Num(n) == [ t |-> "number", v |-> n ]
Str(str) == [ t |-> "string", chars |-> str ]
Json(os) == [ t |-> "object", objects |-> os ]
PageJson == Json(toJSON(<< pageRect(1) >>))
\* what Export JSON writes for the page with an uploaded PDF on it
PagePdfJson ==
    Json(toJSON(<< pageRect(1),
                   pdfObject(2, CHOOSE f \in PdfFiles : f.src = "data:pdfA") >>))
WidgetJson == Json(<< [ toJSON(<< pageRect(1) >>)[1] EXCEPT !.type = "widget" ] >>)

\* the texts of the files offered for import
ImportTexts ==
    << "{not json",
       "null",
       "{\"fabricJson\":PAGE}",
       "{\"version\":2,\"fabricJson\":PAGE}",
       "{\"version\":\"1\",\"fabricJson\":PAGE}",
       "{\"version\":1}",
       "{\"version\":1,\"fabricJson\":PAGE}",
       "{\"version\":1,\"fabricJson\":WIDGET}",
       "{\"version\":1,\"fabricJson\":PAGE+PDF}" >>

\* JSON.parse on these texts
JSONparse(text) ==
    CASE text = "null" -> [ thrown |-> FALSE, value |-> Null ]
      [] text = "{\"fabricJson\":PAGE}" ->
            [ thrown |-> FALSE, value |-> [ version |-> Undefined, fabricJson |-> PageJson ] ]
      [] text = "{\"version\":2,\"fabricJson\":PAGE}" ->
            [ thrown |-> FALSE, value |-> [ version |-> Num(2), fabricJson |-> PageJson ] ]
      [] text = "{\"version\":\"1\",\"fabricJson\":PAGE}" ->
            [ thrown |-> FALSE, value |-> [ version |-> Str("1"), fabricJson |-> PageJson ] ]
      [] text = "{\"version\":1}" ->
            [ thrown |-> FALSE, value |-> [ version |-> Num(1), fabricJson |-> Undefined ] ]
      [] text = "{\"version\":1,\"fabricJson\":PAGE}" ->
            [ thrown |-> FALSE, value |-> [ version |-> Num(1), fabricJson |-> PageJson ] ]
      [] text = "{\"version\":1,\"fabricJson\":WIDGET}" ->
            [ thrown |-> FALSE, value |-> [ version |-> Num(1), fabricJson |-> WidgetJson ] ]
      [] text = "{\"version\":1,\"fabricJson\":PAGE+PDF}" ->
            [ thrown |-> FALSE, value |-> [ version |-> Num(1), fabricJson |-> PagePdfJson ] ]
      [] OTHER -> [ thrown |-> TRUE, value |-> Undefined ]

\* a check that looks at the payload only
isSavedDocAnyVersion(parsed) ==
    ~(parsed = Null \/ parsed.fabricJson \in { Undefined, Null })
\* !(!parsed || parsed.version !== 1 || !parsed.fabricJson)
isSavedDoc(parsed) ==
    ~(parsed = Null \/ parsed.version # Num(1) \/ parsed.fabricJson \in { Undefined, Null })

\* handleImportJsonFile once the text of file k has been read: an accepted
\* document is put first in the list and loaded (handleLoadFromLocal)
handleImportJsonFile(k) ==
    LET r == JSONparse(ImportTexts[k])
    IN  IF r.thrown
        THEN /\ ev' = Ev("importFailed", NoPt, I(0), k, TRUE)
             /\ alert' = "Failed to import that file."
             /\ UNCHANGED << pdf, toolbar >>
             /\ UNCHANGED << vpt, objs, active, nextId, gestureVars, rafFit, docs, asyncVars,
                             exported, jobs, nView, nDown >>
        ELSE IF ~isSavedDoc(r.value)
        THEN /\ ev' = Ev("importRejected", NoPt, I(0), k, TRUE)
             /\ alert' = "That file doesn't look like a valid saved document."
             /\ UNCHANGED << pdf, toolbar >>
             /\ UNCHANGED << vpt, objs, active, nextId, gestureVars, rafFit, docs, asyncVars,
                             exported, jobs, nView, nDown >>
        ELSE /\ Len(docs) < MaxDocs
             /\ nextId + Len(r.value.fabricJson.objects) - 1 <= MaxIds
             /\ docs' = << [ version |-> 1, fabricJson |-> r.value.fabricJson.objects ] >> \o docs
             /\ objs' = << >>
             /\ active' = 0
             /\ loads' = loads \cup { [ json |-> r.value.fabricJson.objects, base |-> nextId,
                                        before |-> objs ] }
             /\ nextId' = nextId + Len(r.value.fabricJson.objects)
             /\ ev' = Ev("import", NoPt, I(0), k, FALSE)
             /\ alert' = ""
             /\ UNCHANGED << pdf, toolbar >>
             /\ UNCHANGED << vpt, gestureVars, rafFit, drops, uploads, exported, jobs, nView,
                             nDown >>

(***************************************************************************)
(* Specifications.                                                         *)
(***************************************************************************)
DropPts == { << 100, 100 >>, CENTER }
Files == PdfFiles \cup OtherFiles

\* every handler, with every input
Next ==
    \/ \E d \in PanDirs : PanButton(d)
    \/ \E delta \in ZoomDeltas : ZoomButton(delta)
    \/ FitButton
    \/ AnimationFrame
    \/ \E deltaY \in WheelDeltas : handleWheelZoom(deltaY)
    \/ handleDownloadPng
    \/ handleDownloadJpeg
    \/ handleDownloadPdf
    \/ \E popup \in BOOLEAN : handlePrint(popup)
    \/ \E j \in jobs : jsPdfLoaded(j)
    \/ \E j \in jobs : jsPdfFailed(j)
    \/ \E tgt \in Targets, shift \in BOOLEAN : MouseDown(tgt, shift)
    \/ \E p \in DevPts : MouseMove(p)
    \/ \E tgt \in Targets, shiftKey \in BOOLEAN : MouseUp(tgt, shiftKey)
    \/ \E tgt \in Targets : MouseUpUnpaired(tgt)
    \/ KeySpaceDown
    \/ KeySpaceUp
    \/ \E isTyping \in BOOLEAN : KeyDelete(isTyping)
    \/ \E d \in PanDirs, shiftKey \in BOOLEAN, isTyping \in BOOLEAN : KeyArrow(d, shiftKey, isTyping)
    \/ \E p \in DropPts, src \in IconSrcs \cup { "" } : onDropStart(p, src)
    \/ \E d \in drops : onDropLoaded(d)
    \/ \E file \in Files : handlePdfUploadStart(file)
    \/ \E u \in uploads : handlePdfUploadLoaded(u)
    \/ \E u \in uploads : handlePdfUploadFailed(u)
    \/ handleSaveToLocal
    \/ \E i \in DOMAIN docs : handleDeleteSaved(i)
    \/ \E i \in DOMAIN docs : handleLoadFromLocalStart(i)
    \/ \E l \in loads : handleLoadFromLocalLoaded(l)
    \/ \E l \in loads : handleLoadFromLocalFailed(l)
    \/ \E k \in DOMAIN ImportTexts : (docs = << >> \/ k <= 6) /\ handleImportJsonFile(k)
    \/ \E v \in BOOLEAN : setToolbarVisible(v)
    \/ \E p \in DevPts, onButton \in BOOLEAN : onToolbarMouseDown(p, onButton)
    \/ \E p \in DevPts : ToolbarMouseMove(p)
    \/ onUp

Spec == Init /\ [][Next]_vars

(***************************************************************************)
(* Parts of the editor.  Each of the following next-state relations takes  *)
(* some of the disjuncts of Next, some with fewer inputs, so that every    *)
(* behaviour of SpecView, SpecExport, SpecGesture and SpecDoc is a         *)
(* behaviour of Spec.                                                      *)
(***************************************************************************)
\* the viewport: every handler that writes the viewport transform, and the
\* upload that requests a fit
ViewPts == { << 100, 100 >>, CENTER }
NextView ==
    \/ \E d \in PanDirs : PanButton(d)
    \/ \E delta \in ZoomDeltas : ZoomButton(delta)
    \/ FitButton
    \/ AnimationFrame
    \/ \E deltaY \in WheelDeltas : handleWheelZoom(deltaY)
    \/ \E d \in PanDirs, shiftKey \in BOOLEAN : KeyArrow(d, shiftKey, FALSE)
    \/ nDown = 0 /\ \E tgt \in Targets : MouseDown(tgt, FALSE)
    \/ \E p \in ViewPts : MouseMove(p)
    \/ \E tgt \in Targets : MouseUp(tgt, FALSE)
    \/ uploads = {} /\ \E file \in { f \in PdfFiles : f.src = "data:pdfA" } :
                            handlePdfUploadStart(file)
    \/ \E u \in uploads : handlePdfUploadLoaded(u)

SpecView == Init /\ [][NextView]_vars

\* the page export under the viewports the toolbar produces
NextExport ==
    \/ \E d \in PanDirs : PanButton(d)
    \/ \E delta \in ZoomDeltas : ZoomButton(delta)
    \/ FitButton
    \/ AnimationFrame
    \/ \E src \in IconSrcs \cup { "" } : onDropStart(<< 100, 100 >>, src)
    \/ \E d \in drops : onDropLoaded(d)
    \/ handleDownloadPng

SpecExport == Init /\ [][NextExport]_vars

\* the exports that wait for the encoder module, while the scene and the view change
NextEncoder ==
    \/ \E d \in { << 0, 1 >>, << 1, 0 >> } : PanButton(d)
    \/ AnimationFrame
    \/ \E src \in IconSrcs : onDropStart(<< 100, 100 >>, src)
    \/ \E d \in drops : onDropLoaded(d)
    \/ handleDownloadPng
    \/ handleDownloadPdf
    \/ \E popup \in BOOLEAN : handlePrint(popup)
    \/ \E j \in jobs : jsPdfLoaded(j)
    \/ \E j \in jobs : jsPdfFailed(j)

SpecEncoder == Init /\ [][NextEncoder]_vars

\* exporting around saving and restoring documents
NextExportDoc ==
    \/ AnimationFrame
    \/ \E src \in IconSrcs : onDropStart(<< 100, 100 >>, src)
    \/ \E d \in drops : onDropLoaded(d)
    \/ docs = << >> /\ handleSaveToLocal
    \/ \E i \in 1..Len(docs) : handleLoadFromLocalStart(i)
    \/ \E l \in loads : handleLoadFromLocalLoaded(l)
    \/ handleDownloadPng
    \/ handleDownloadJpeg
    \/ handleDownloadPdf
    \/ \E popup \in BOOLEAN : handlePrint(popup)
    \/ \E j \in jobs : jsPdfLoaded(j)
    \/ \E j \in jobs : jsPdfFailed(j)

SpecExportDoc == Init /\ [][NextExportDoc]_vars

\* uploads that overlap, on a fresh canvas and on an imported document
NextBackground ==
    \/ AnimationFrame
    \/ PanButton(<< 1, 0 >>)
    \/ \E file \in PdfFiles : handlePdfUploadStart(file)
    \/ \E u \in uploads : handlePdfUploadLoaded(u)
    \/ \E u \in uploads : handlePdfUploadFailed(u)
    \/ docs = << >> /\ \E k \in { 7, 9 } : handleImportJsonFile(k)
    \/ \E l \in loads : handleLoadFromLocalLoaded(l)

SpecBackground == Init /\ [][NextBackground]_vars

\* the same, with the browser running every animation frame that was requested
SpecFit == Init /\ [][NextBackground]_vars /\ WF_vars(AnimationFrame)

\* importing, saving and restoring documents
NextImport ==
    \/ \E src \in IconSrcs : onDropStart(<< 100, 100 >>, src)
    \/ \E d \in drops : onDropLoaded(d)
    \/ \E d \in PanDirs : PanButton(d)
    \/ docs = << >> /\ handleSaveToLocal
    \/ \E i \in DOMAIN docs : handleLoadFromLocalStart(i)
    \/ \E l \in loads : handleLoadFromLocalLoaded(l)
    \/ \E l \in loads : handleLoadFromLocalFailed(l)
    \/ \E k \in DOMAIN ImportTexts : (docs = << >> \/ k <= 6) /\ handleImportJsonFile(k)

SpecImport == Init /\ [][NextImport]_vars

\* the pointer gestures on dropped icons
GesturePts == { << 100, 100 >>, << 103, 104 >>, << 104, 104 >>, << 110, 100 >> }
NextGesture ==
    \/ AnimationFrame
    \/ \E src \in IconSrcs : onDropStart(<< 100, 100 >>, src)
    \/ \E d \in drops : onDropLoaded(d)
    \/ nDown = 0 /\ \E tgt \in Targets, shift \in BOOLEAN : MouseDown(tgt, shift)
    \/ \E p \in GesturePts : MouseMove(p)
    \/ \E tgt \in Targets, shiftKey \in BOOLEAN : MouseUp(tgt, shiftKey)
    \/ KeySpaceDown
    \/ KeySpaceUp

SpecGesture == Init /\ [][NextGesture]_vars

\* the list of saved documents
NextSaved ==
    \/ \E src \in IconSrcs : onDropStart(<< 100, 100 >>, src)
    \/ \E d \in drops : onDropLoaded(d)
    \/ handleSaveToLocal
    \/ \E i \in DOMAIN docs : handleDeleteSaved(i)
    \/ \E k \in { 7, 9 } : handleImportJsonFile(k)
    \/ \E l \in loads : handleLoadFromLocalLoaded(l)

SpecSaved == Init /\ [][NextSaved]_vars

\* clicks on an icon, one after the other
NextRotate ==
    \/ \E src \in IconSrcs : onDropStart(<< 100, 100 >>, src)
    \/ \E d \in drops : onDropLoaded(d)
    \/ \E tgt \in Targets, shift \in BOOLEAN : MouseDown(tgt, shift)
    \/ \E p \in { << 100, 100 >>, << 110, 100 >> } : MouseMove(p)
    \/ \E tgt \in Targets : MouseUp(tgt, FALSE)
    \/ \E tgt \in Targets : MouseUpUnpaired(tgt)

SpecRotate == Init /\ [][NextRotate]_vars

\* the keyboard and the toolbar in the middle of the pointer gestures
NextKeys ==
    \/ \E src \in IconSrcs : onDropStart(<< 100, 100 >>, src)
    \/ \E d \in drops : onDropLoaded(d)
    \/ nDown = 0 /\ \E tgt \in Targets : MouseDown(tgt, FALSE)
    \/ MouseMove(<< 110, 100 >>)
    \/ \E tgt \in Targets : MouseUp(tgt, FALSE)
    \/ \E d \in PanDirs, shiftKey \in BOOLEAN, isTyping \in BOOLEAN : KeyArrow(d, shiftKey, isTyping)
    \/ \E d \in { << 0, 1 >>, << -1, 0 >> } : PanButton(d)
    \/ \E delta \in ZoomDeltas : ZoomButton(delta)

SpecKeys == Init /\ [][NextKeys]_vars

\* the wheel in the middle of the pointer gestures
NextWheel ==
    \/ \E src \in IconSrcs : onDropStart(<< 100, 100 >>, src)
    \/ \E d \in drops : onDropLoaded(d)
    \/ nDown = 0 /\ \E tgt \in Targets : MouseDown(tgt, FALSE)
    \/ \E p \in { << 100, 100 >>, << 110, 100 >> } : MouseMove(p)
    \/ \E tgt \in Targets : MouseUp(tgt, FALSE)
    \/ KeySpaceDown
    \/ KeySpaceUp
    \/ \E deltaY \in WheelDeltas : handleWheelZoom(deltaY)

SpecWheel == Init /\ [][NextWheel]_vars

\* what can happen while a pan is in progress
NextPan ==
    \/ \E src \in IconSrcs : onDropStart(<< 100, 100 >>, src)
    \/ \E d \in drops : onDropLoaded(d)
    \/ nDown = 0 /\ \E tgt \in Targets : MouseDown(tgt, FALSE)
    \/ \E p \in { << 100, 100 >>, << 110, 100 >> } : MouseMove(p)
    \/ \E tgt \in Targets : MouseUp(tgt, FALSE)
    \/ KeySpaceDown
    \/ KeySpaceUp
    \/ handleWheelZoom(693)
    \/ \E isTyping \in BOOLEAN : KeyArrow(<< 0, 1 >>, FALSE, isTyping)
    \/ \E isTyping \in BOOLEAN : KeyDelete(isTyping)

SpecPan == Init /\ [][NextPan]_vars

\* the navigation toolbar shown, hidden and dragged while the canvas is in use
NextToolbar ==
    \/ AnimationFrame
    \/ \E src \in IconSrcs : onDropStart(<< 100, 100 >>, src)
    \/ \E d \in drops : onDropLoaded(d)
    \/ nDown = 0 /\ \E tgt \in Targets : MouseDown(tgt, FALSE)
    \/ MouseMove(<< 110, 100 >>)
    \/ \E tgt \in Targets : MouseUp(tgt, FALSE)
    \/ \E v \in BOOLEAN : setToolbarVisible(v)
    \/ \E onButton \in BOOLEAN : onToolbarMouseDown(<< 100, 100 >>, onButton)
    \/ \E p \in { << 100, 100 >>, << 110, 104 >> } : ToolbarMouseMove(p)
    \/ onUp

SpecToolbar == Init /\ [][NextToolbar]_vars

\* the scene and the saved documents
NextDoc ==
    \/ AnimationFrame
    \/ \E src \in IconSrcs : onDropStart(<< 100, 100 >>, src)
    \/ \E d \in drops : onDropLoaded(d)
    \/ uploads = {} /\ \E file \in Files : handlePdfUploadStart(file)
    \/ \E u \in uploads : handlePdfUploadLoaded(u)
    \/ \E u \in uploads : handlePdfUploadFailed(u)
    \/ docs = << >> /\ handleSaveToLocal
    \/ \E i \in DOMAIN docs : handleLoadFromLocalStart(i)
    \/ \E l \in loads : handleLoadFromLocalLoaded(l)
    \/ nDown = 0 /\ \E tgt \in Targets : MouseDown(tgt, FALSE)
    \/ \E tgt \in Targets : MouseUp(tgt, FALSE)
    \/ \E isTyping \in BOOLEAN : KeyDelete(isTyping)

SpecDoc == Init /\ [][NextDoc]_vars

(***************************************************************************)
(* Properties of the viewport (SpecView, SpecExport).                      *)
(***************************************************************************)
\* C1: for a fixed scene, the raster of a page export does not depend on the
\* viewport transform at the moment of the export: it is the raster an export
\* under the viewport of construction gives
ExportIndependentOfViewport ==
    ev.op = "export" => exported = toPageDataUrl(objs, IdentityVpt)

\* C2: in every reachable state the viewport scale lies between MIN_ZOOM and
\* MAX_ZOOM
ScaleInRange == RLe(MIN_ZOOM, vpt.s) /\ RLe(vpt.s, MAX_ZOOM)
ScaleAtBound ==
    /\ ev.op \in { "wheel", "zoomBy", "rafFit", "fit", "mouseMove", "uploadLoaded" }
    /\ vpt.s \in { MIN_ZOOM, MAX_ZOOM }
    /\ vpt.tx # I(0)

\* C3: a zoom (zoomBy, or a wheel event) whose requested scale lies outside
\* [MIN_ZOOM, MAX_ZOOM] is carried out, and leaves the scale at the nearest bound
OutOfRange(req) == RLt(req, MIN_ZOOM) \/ RLt(MAX_ZOOM, req)
nearestBound(req) == IF RLt(req, MIN_ZOOM) THEN MIN_ZOOM ELSE MAX_ZOOM
ZoomClamped ==
    (ev.op \in { "zoomBy", "wheel" } /\ OutOfRange(ev.req)) => vpt.s = nearestBound(ev.req)
ZoomBelowClamped == ev.op = "zoomBy" /\ RLt(ev.req, MIN_ZOOM) /\ vpt.s = MIN_ZOOM

\* C4: a zoom at device point p (the pointer for a wheel event, the canvas
\* centre for zoomBy) leaves the world point under p where it was
ZoomKeepsPoint ==
    [][ev'.op \in { "zoomBy", "wheel" }
         => toWorld(RPt(ev'.p), vpt') = toWorld(RPt(ev'.p), vpt)]_vars
ZoomedAtPointer ==
    /\ ev.op = "wheel"
    /\ ev.p = << 100, 100 >>
    /\ vpt.s # I(1)
    /\ vpt.tx # I(0)

(***************************************************************************)
(* Properties of the pointer gestures (SpecGesture).  A step with btnDown  *)
(* and ~btnDown' is a mouse:up; `gesture` holds what the gesture it ends   *)
(* has been.                                                               *)
(***************************************************************************)
IsIcon(o) == o.type = "image" /\ o.src \in IconSrcs
OnIcon == gesture.tgt # 0 /\ IsIn(objs, gesture.tgt) /\ IsIcon(ById(objs, gesture.tgt))

\* C5: a pointer-down on an icon without Space held, followed by a pointer-up on
\* the same icon with the pointer never further than the threshold from where it
\* went down, turns that icon by +90 degrees, by -90 if shift was held at the
\* pointer-down (whatever the modifier is at the pointer-up), leaves every
\* other object as it was, and ends the gesture
ClickRotates ==
    [][(btnDown /\ ~btnDown' /\ OnIcon /\ ~gesture.space /\ ~gesture.far
            /\ ev'.tgt = gesture.tgt)
         => /\ objs' = SetObj(objs, gesture.tgt,
                              [ ById(objs, gesture.tgt) EXCEPT
                                  !.angle = (@ + (IF gesture.shift THEN 270 ELSE 90)) % 360 ])
            /\ ~isDragging' /\ selection' /\ xform' = NoXform]_vars
ShiftClicked ==
    /\ ev.op = "mouseUp" /\ ev.tgt # 0 /\ ev.tgt = clickState.target
    /\ clickState.shiftKey /\ ~ev.flag /\ ~clickState.moved
    /\ ev.p # << clickState.startX, clickState.startY >>
    /\ IsIn(objs, ev.tgt) /\ ById(objs, ev.tgt).angle = 270
    /\ ~isSpaceDown /\ ~isDragging

\* C6 as stated: once the straight-line distance between the pointer and the
\* place of the pointer-down has exceeded the threshold, the pointer-up leaves
\* the angle of the object as it was
FarNeverRotates ==
    [][(btnDown /\ ~btnDown' /\ OnIcon /\ gesture.far)
         => ById(objs', gesture.tgt).angle = ById(objs, gesture.tgt).angle]_vars

\* C6: once the pointer has been more than the threshold away from the place of
\* the pointer-down along the x axis or along the y axis, the pointer-up leaves
\* the angle of the object as it was, wherever the pointer is by then
FarOnAxisNeverRotates ==
    [][(btnDown /\ ~btnDown' /\ OnIcon /\ gesture.farAxis)
         => ById(objs', gesture.tgt).angle = ById(objs, gesture.tgt).angle]_vars
DraggedAndReturned ==
    /\ ev.op = "mouseUp" /\ ev.tgt # 0 /\ ev.tgt = clickState.target
    /\ clickState.moved
    /\ ev.p = << clickState.startX, clickState.startY >>
    /\ IsIn(objs, ev.tgt) /\ ById(objs, ev.tgt).angle = 0

\* C7: a gesture begun with Space held over an icon leaves the icon's angle and
\* position as they were at the pointer-down
SpaceGestureSparesIcon ==
    [][(btnDown /\ ~btnDown' /\ OnIcon /\ gesture.space)
         => /\ ById(objs', gesture.tgt).angle = gesture.angle0
            /\ ById(objs', gesture.tgt).left = gesture.left0
            /\ ById(objs', gesture.tgt).top = gesture.top0]_vars

(***************************************************************************)
(* Properties of the scene (SpecDoc).  The page is the rectangle of the    *)
(* scene, the background an image made from an uploaded PDF, whatever      *)
(* their names are.                                                        *)
(***************************************************************************)
IsPage(o) == o.type = "rect"
IsBackground(o) == o.type = "image" /\ o.src \in { f.src : f \in PdfFiles }

\* C8: when a restore has completed, the page and the background are neither
\* selectable nor evented, and every other object is both
RestoreLocksPage ==
    ev.op = "loaded"
        => \A i \in DOMAIN objs :
              IF IsPage(objs[i]) \/ IsBackground(objs[i])
              THEN ~objs[i].selectable /\ ~objs[i].evented
              ELSE objs[i].selectable /\ objs[i].evented

\* C9: outside a restore in progress, the scene holds exactly one object named
\* A3_PAGE, at the position and of the size it was created with, and the user
\* can neither select nor hit it
OnePageRegion ==
    loads = {}
        => /\ Cardinality(Named(objs, PAGE_NAME)) = 1
           /\ \A i \in Named(objs, PAGE_NAME) :
                 /\ objs[i].left = I(0) /\ objs[i].top = I(0)
                 /\ objs[i].w = I(A3_W_PX) /\ objs[i].h = I(A3_H_PX)
                 /\ ~objs[i].selectable /\ ~objs[i].evented

\* C10: Delete or Backspace outside a text field, with the page or the
\* background selected, changes neither the scene nor the selection; with any
\* other object selected it removes that object and clears the selection
DeleteGuard ==
    [][(ev'.op = "delete" /\ ~ev'.flag /\ active # 0 /\ IsIn(objs, active))
         => IF IsPage(ById(objs, active)) \/ IsBackground(ById(objs, active))
            THEN objs' = objs /\ active' = active
            ELSE objs' = Without(objs, active) /\ active' = 0]_vars

\* C11: when no object named PAGE_NAME is on the canvas, every export (PNG,
\* JPEG, PDF, Print) reports "A3 page not found", downloads nothing, hands
\* nothing to the encoder, and does not fall back on a default region
ExportOps == { "export", "exportJpeg", "exportPdf", "print", "printBlocked", "exportFailed" }
ExportFailsLoudly ==
    [][ (ev'.op \in ExportOps /\ Named(objs, PAGE_NAME) = {})
            => /\ ev'.op = "exportFailed"
               /\ alert' = ALERT_NO_PAGE
               /\ exported' = exported
               /\ jobs' = jobs ]_vars
\* an export was refused after an earlier one had produced a raster
ExportRefused ==
    /\ ev.op = "exportFailed"
    /\ Named(objs, PAGE_NAME) = {}
    /\ objs # << >>
    /\ alert = ALERT_NO_PAGE
    /\ exported # NoRaster

\* C12: an import whose text does not parse, or whose parsed document is null,
\* has no version, has a version other than the number 1, or has no payload,
\* is reported and leaves the saved documents, the scene and the viewport as
\* they were
MalformedImports == 1..6
ImportValidation ==
    [][ (ev'.op \in { "import", "importRejected", "importFailed" }
            /\ ev'.tgt \in MalformedImports)
            => /\ alert' # ""
               /\ docs' = docs
               /\ objs' = objs
               /\ vpt' = vpt
               /\ loads' = loads ]_vars
\* a malformed file was refused while there was a scene and a saved document to lose
ImportRefused ==
    /\ ev.op \in { "importRejected", "importFailed" }
    /\ ev.tgt \in MalformedImports
    /\ alert # ""
    /\ Len(objs) > 1
    /\ vpt # IdentityVpt
    /\ docs # << >>

\* C13: when a restore or an import fails in deserialization, the scene and the
\* viewport are what they were before the operation started
FailedLoadKeepsScene ==
    [][ ev'.op = "loadFailed"
            => \A l \in loads \ loads' : objs' = l.before /\ vpt' = vpt ]_vars

\* C14: an upload with no file, or with a file that is not application/pdf, is
\* reported and changes nothing; a rasterization is only ever started for a PDF
UploadRejection ==
    [][ /\ ev'.op = "uploadRejected"
            => /\ alert' = "Please upload a valid PDF file."
               /\ uploads' = uploads
               /\ objs' = objs
               /\ vpt' = vpt
               /\ rafFit' = rafFit
        /\ \A u \in uploads' : u.img.type = "application/pdf" ]_vars
\* a file was refused while a background was on the canvas
UploadRefused ==
    /\ ev.op = "uploadRejected"
    /\ alert = "Please upload a valid PDF file."
    /\ getPdfObj # 0

\* C15: an upload in flight changes nothing, and when it fails it is reported
\* and the scene (the earlier background and the order included) and the
\* viewport stay as they are
UploadFailureKeepsScene ==
    [][ /\ ev'.op = "upload" => objs' = objs /\ vpt' = vpt /\ rafFit' = rafFit
        /\ ev'.op = "uploadFailed"
            => /\ alert' = "Failed to upload PDF."
               /\ objs' = objs
               /\ vpt' = vpt
               /\ rafFit' = rafFit ]_vars
\* an upload failed while an earlier background and an icon were on the canvas
UploadFailedOverBackground ==
    /\ ev.op = "uploadFailed"
    /\ alert = "Failed to upload PDF."
    /\ getPdfObj # 0
    /\ Len(objs) >= 3

\* C16: in every reachable state at most one background is on the canvas
Backgrounds == { i \in DOMAIN objs : IsBackground(objs[i]) }
AtMostOneBackground == Cardinality(Backgrounds) <= 1

\* C17: an export draws the scene as it is when it is requested: a download
\* holds the raster of the current scene, a PDF export or print hands the
\* encoder the raster of the scene at the request, and what the encoder
\* delivers is that raster whatever happened to the scene while it loaded
ExportRendersAtRequest ==
    [][ /\ ev'.op = "export" => exported' = toPageDataUrl(objs, vpt)
        /\ ev'.op \in { "exportPdf", "print" }
            => \A j \in jobs' \ jobs : j.dataUrl = toPageDataUrl(objs, vpt)
        /\ ev'.op \in { "pdfSaved", "printed" }
            => \A j \in jobs \ jobs' : exported' = j.dataUrl ]_vars
\* a PDF was saved with the raster of the bare page, after an icon had been
\* added while the encoder was loading and the view had never changed
SavedRasterPredatesIcon ==
    /\ ev.op = "pdfSaved"
    /\ nView = 0
    /\ vpt = IdentityVpt
    /\ Len(objs) = 2
    /\ exported = toPageDataUrl(<< pageRect(1) >>, IdentityVpt)
    /\ exported # toPageDataUrl(objs, vpt)

\* C18: whatever the transform was, a fit sets the scale to the smaller of
\* (width - 2 padding) / page width and (height - 2 padding) / page height,
\* which lies within the zoom bounds, and maps the centre of the page region to
\* the centre of the canvas
PageCentre == << Q(A3_W_PX, 2), Q(A3_H_PX, 2) >>
FitCentresPage ==
    ev.op \in { "fit", "rafFit" }
        => /\ vpt.s = Q(CANVAS_H - 2 * FIT_PADDING, A3_H_PX)
           /\ RLe(vpt.s, Q(CANVAS_W - 2 * FIT_PADDING, A3_W_PX))
           /\ RLe(MIN_ZOOM, vpt.s) /\ RLe(vpt.s, MAX_ZOOM)
           /\ toDevice(PageCentre, vpt) = RPt(CENTER)
\* a fit was made after the view had been changed twice
FittedAfterViewChange ==
    /\ ev.op = "rafFit"
    /\ nView = MaxView
    /\ toDevice(PageCentre, vpt) = RPt(CENTER)

\* C19: for every reachable viewport transform and every device point p whose
\* world point is representable, toDevice(toWorld(p, t), t) = p
RoundTrip ==
    \A p \in DevPts :
        LET w == toWorld(RPt(p), vpt)
        IN  IsR(w[1]) /\ IsR(w[2]) => toDevice(w, vpt) = RPt(p)
\* the round trip was made under a transform that scales and translates
RoundTripScaledTranslated ==
    /\ vpt.s # I(1)
    /\ vpt.tx # I(0)
    /\ vpt.ty # I(0)
    /\ \A p \in DevPts : toDevice(toWorld(RPt(p), vpt), vpt) = RPt(p)

\* C20: a drop with an empty payload creates nothing; the icon of any other
\* drop is placed at toWorld(p, t), p the drop point and t the viewport
\* transform of the moment of the drop, and it is selectable, evented and the
\* active object
DropPlacement ==
    [][ /\ (ev'.op = "drop" /\ ev'.flag)
            => objs' = objs /\ drops' = drops /\ active' = active
        /\ ev'.op = "dropLoaded"
            => \A d \in drops \ drops' :
                 /\ Len(objs') = Len(objs) + 1
                 /\ LET o == objs'[Len(objs')]
                    IN  /\ << o.left, o.top >> = toWorld(RPt(d.p), d.t)
                        /\ o.src = d.src
                        /\ o.selectable /\ o.evented
                        /\ active' = o.id ]_vars
\* an icon has arrived after the view changed under the pending drop
DroppedUnderMovingView ==
    /\ ev.op = "dropLoaded"
    /\ active = ev.tgt
    /\ IsR(toWorld(RPt(<< 100, 100 >>), vpt)[1])
    /\ \E i \in DOMAIN objs :
          /\ objs[i].id = ev.tgt
          /\ << objs[i].left, objs[i].top >> # toWorld(RPt(<< 100, 100 >>), vpt)

\* C21: the raster of an export is multiplier x width by multiplier x height
\* pixels of the page region, and each of its pixels shows the world point of
\* the region it stands for, whatever the viewport is
RegionPoint(region, px) ==
    << RAdd(region.left, Q(px[1], EXPORT_MULTIPLIER)),
       RAdd(region.top, Q(px[2], EXPORT_MULTIPLIER)) >>
ExportCoversRegion ==
    ev.op = "export"
        => LET region == getA3Region(objs)
           IN  /\ exported.w = RMul(I(EXPORT_MULTIPLIER), region.width)
               /\ exported.h = RMul(I(EXPORT_MULTIPLIER), region.height)
               /\ \A k \in DOMAIN SamplePx :
                     exported.px[k] = Paint(objs, RegionPoint(region, SamplePx[k]))

\* C22: the PDF a PDF export or a print makes has a 420 x 297 mm page when the
\* page region is at least as wide as high and a 297 x 420 mm page otherwise,
\* and the raster is placed at (0, 0) with the width and height of that page
PdfPageMatchesRegion ==
    ev.op \in { "pdfSaved", "printed" }
        => LET region == getA3Region(objs)
               page == IF RLe(region.height, region.width)
                       THEN << 420, 297 >> ELSE << 297, 420 >>
           IN  /\ pdf.page = page
               /\ pdf.image = << 0, 0, page[1], page[2] >>

\* C23: in whatever state the pointer gesture is, a wheel event with deltaY
\* sets the scale to the current scale times 0.999^deltaY, clamped to the zoom
\* bounds, keeps the world point under the pointer where it is, does not
\* raise the scale for deltaY > 0 nor lower it for deltaY < 0, and leaves the
\* gesture state, the scene and the selection as they are
WheelScale(s, deltaY) ==
    LET target == RMul(s, Pow999(deltaY))
    IN  IF RLt(target, MIN_ZOOM) THEN MIN_ZOOM
        ELSE IF RLt(MAX_ZOOM, target) THEN MAX_ZOOM ELSE target
WheelUngated ==
    [][ ev'.op = "wheel"
            => /\ vpt'.s = WheelScale(vpt.s, ev'.tgt)
               /\ toDevice(toWorld(RPt(ptr), vpt), vpt') = RPt(ptr)
               /\ ev'.tgt > 0 => RLe(vpt'.s, vpt.s)
               /\ ev'.tgt < 0 => RLe(vpt.s, vpt'.s)
               /\ UNCHANGED << isSpaceDown, isDragging, selection, lastPos, clickState, ptr,
                               btnDown, xform, objs, active >> ]_vars
\* the wheel has zoomed in the middle of a pan
WheelWhilePanning ==
    /\ ev.op = "wheel"
    /\ isDragging /\ btnDown /\ ~selection
    /\ vpt.s # I(1)
\* the wheel has zoomed while an icon was held, before and after it was moved
WheelWhileDragging ==
    /\ ev.op = "wheel"
    /\ btnDown /\ xform.id # 0 /\ clickState.target # 0
    /\ vpt.s # I(1)

\* C24: an arrow key pressed outside a text input pans by 35 device pixels, 80
\* with Shift held, Up and Left towards + and Down and Right towards -, keeps
\* the scale and suppresses the browser's default; the opposite arrow with the
\* same modifier would lead back to the transform of before; inside a text
\* input the key does nothing
ArrowPan ==
    [][ ev'.op = "arrow"
            => LET step == IF ev'.tgt = 1 THEN 80 ELSE 35
                   d == ev'.p
               IN  IF ev'.flag
                   THEN vpt' = vpt /\ ~ev'.prevented
                   ELSE /\ vpt'.s = vpt.s
                        /\ vpt'.tx = RAdd(vpt.tx, I(d[1] * step))
                        /\ vpt'.ty = RAdd(vpt.ty, I(d[2] * step))
                        /\ ev'.prevented
                        /\ panBy(vpt', (-d[1]) * arrowStep(ev'.tgt = 1),
                                 (-d[2]) * arrowStep(ev'.tgt = 1)) = vpt ]_vars
\* Shift and an arrow have panned a zoomed view by 80
ArrowPannedWithShift ==
    /\ ev.op = "arrow" /\ ev.tgt = 1 /\ ~ev.flag /\ ev.prevented
    /\ vpt.s # I(1)
    /\ ev.p = << 0, 1 >>

\* C25: panBy(dx, dy) adds (dx, dy) to the translation and leaves the scale,
\* the objects and the state of the pointer gesture as they are
PanFrame ==
    [][ (ev'.op = "panBy" \/ (ev'.op = "arrow" /\ ~ev'.flag))
            => /\ vpt'.s = vpt.s
               /\ \E dx \in { -80, -40, -35, 0, 35, 40, 80 }, dy \in { -80, -40, -35, 0, 35, 40, 80 } :
                     /\ (ev'.op = "panBy" => << dx, dy >> = ev'.p)
                     /\ vpt'.tx = RAdd(vpt.tx, I(dx)) /\ vpt'.ty = RAdd(vpt.ty, I(dy))
                     /\ (dx = 0) # (dy = 0)
               /\ UNCHANGED << objs, active, isSpaceDown, isDragging, selection, lastPos,
                               clickState, ptr, btnDown, xform >> ]_vars
\* the pan button has panned along y while an icon was held
PannedWhileHolding ==
    /\ ev.op = "panBy" /\ ev.p = << 0, 40 >>
    /\ btnDown /\ xform.id # 0
    /\ vpt.ty # I(0)

\* C26: zoomBy(delta) sets the scale to the current scale plus delta, clamped to
\* the zoom bounds, and the world point at the centre of the canvas stays at the
\* centre
ZoomByAtCentre ==
    [][ ev'.op = "zoomBy"
            => /\ \E delta \in { Q(1, 5), Q(-1, 5) } :
                     LET z == RAdd(vpt.s, delta)
                     IN  /\ ev'.req = z
                         /\ vpt'.s = IF RLt(z, MIN_ZOOM) THEN MIN_ZOOM
                                     ELSE IF RLt(MAX_ZOOM, z) THEN MAX_ZOOM ELSE z
               /\ toDevice(toWorld(RPt(CENTER), vpt), vpt') = RPt(CENTER) ]_vars
\* zoomBy has zoomed a panned view
ZoomedByAfterPan ==
    /\ ev.op = "zoomBy"
    /\ vpt.s = Q(6, 5)
    /\ vpt.tx # I(0) /\ vpt.ty # I(0)
    /\ toDevice(toWorld(RPt(CENTER), IdentityVpt), vpt) # RPt(CENTER)

\* C27: in every reachable state the angle of every icon is one of 0, 90, 180
\* and 270, whatever forward and backward click rotations it has been through
IconAnglesNormalized ==
    \A i \in DOMAIN objs : IsIcon(objs[i]) => objs[i].angle \in { 0, 90, 180, 270 }
\* a backward click has turned an icon from 0 to 270
TurnedBackFromZero ==
    /\ ev.op = "mouseUp"
    /\ nDown = 1
    /\ clickState.shiftKey /\ ~clickState.moved
    /\ \E i \in DOMAIN objs : IsIcon(objs[i]) /\ objs[i].angle = 270
\* four forward clicks have brought an icon back to 0
TurnedFullCircle ==
    /\ ev.op = "mouseUp"
    /\ nDown = 4
    /\ ~clickState.shiftKey /\ ~clickState.moved /\ nView = 0
    /\ \E i \in DOMAIN objs : IsIcon(objs[i]) /\ objs[i].angle = 0 /\ clickState.target = objs[i].id

\* C28: a pan in progress ends with a pointer-up and with nothing else: pointer
\* moves, wheel events and keys, the release of Space among them, leave
\* isDragging on and the canvas selection off; every pointer-up turns
\* isDragging off and the canvas selection on
PanEndsAtPointerUp ==
    [][ /\ (isDragging /\ ev'.op # "mouseUp") => (isDragging' /\ ~selection')
        /\ ev'.op = "mouseUp" => (~isDragging' /\ selection' /\ ~btnDown') ]_vars
\* Space was released in the middle of a pan that began over an icon with Space
\* held, and the pan goes on
PanOutlivesSpace ==
    /\ ev.op = "spaceUp"
    /\ isDragging /\ ~selection /\ btnDown
    /\ gesture.space /\ gesture.tgt # 0
    /\ vpt # IdentityVpt

\* C29: Save and an accepted import put the new document at the head of the
\* list and keep the documents that were there, in their order; Delete takes
\* out the document at its index and keeps the others in their order
SavedListOrder ==
    [][ /\ ev'.op \in { "save", "import" }
            => /\ Len(docs') = Len(docs) + 1
               /\ \A j \in DOMAIN docs : docs'[j + 1] = docs[j]
        /\ ev'.op = "save" => docs'[1].fabricJson = toJSON(objs)
        /\ ev'.op = "deleteSaved"
            => /\ Len(docs') = Len(docs) - 1
               /\ \A j \in DOMAIN docs' :
                     docs'[j] = IF j < ev'.tgt THEN docs[j] ELSE docs[j + 1] ]_vars
\* a save has put a document before two older ones, all three different
SavedBeforeOlder ==
    /\ ev.op = "save"
    /\ Len(docs) = 3
    /\ docs[1].fabricJson = toJSON(objs)
    /\ docs[1] # docs[2] /\ docs[2] # docs[3] /\ docs[1] # docs[3]

\* C30: the background a completed upload has put on the canvas keeps the
\* proportions of the rasterized page, is as large as fits inside the page
\* region, has the same margin on opposite sides, and is neither selectable
\* nor evented
BackgroundFitsPage ==
    (ev.op = "uploadLoaded" /\ getA3Region(objs).found)
        => LET o == ById(objs, ev.tgt)
               img == CHOOSE f \in PdfFiles : f.src = o.src
               region == getA3Region(objs)
           IN  /\ RMul(o.w, I(img.h)) = RMul(o.h, I(img.w))
               /\ RLe(o.w, region.width) /\ RLe(o.h, region.height)
               /\ o.w = region.width \/ o.h = region.height
               /\ RLe(region.left, o.left) /\ RLe(region.top, o.top)
               /\ RSub(o.left, region.left)
                    = RSub(RAdd(region.left, region.width), RAdd(o.left, o.w))
               /\ RSub(o.top, region.top)
                    = RSub(RAdd(region.top, region.height), RAdd(o.top, o.h))
               /\ ~o.selectable /\ ~o.evented
\* the wide PDF has been fitted by its width and centred between the top and
\* the bottom of the page
WideBackgroundCentred ==
    /\ ev.op = "uploadLoaded"
    /\ getA3Region(objs).found
    /\ ById(objs, ev.tgt).src = "data:pdfB"
    /\ ById(objs, ev.tgt).w = I(A3_W_PX)
    /\ RLt(I(0), ById(objs, ev.tgt).top)

\* C31: a pointer-up that is no click (its target is not the target of the
\* pointer-down, or the pointer-down was over nothing, or the target is the
\* page or the background) leaves every object as it is, angle and position,
\* and ends the gesture
NotAClick(tgt) ==
    \/ tgt # gesture.tgt
    \/ gesture.tgt = 0
    \/ tgt # 0 /\ IsIn(objs, tgt) /\ (IsPage(ById(objs, tgt)) \/ IsBackground(ById(objs, tgt)))
PointerUpOffClick ==
    [][ (btnDown /\ ~btnDown' /\ NotAClick(ev'.tgt))
            => /\ objs' = objs
               /\ ~isDragging' /\ selection' /\ xform' = NoXform ]_vars

\* C32: as long as nothing has been saved or restored, that is after icon drops
\* and uploads alone, the page is the first object of the scene, the
\* background, when there is one, the second, and every icon comes after them
StackingOrder ==
    docs = << >>
        => /\ objs # << >> /\ IsPage(objs[1])
           /\ \A i \in DOMAIN objs : IsBackground(objs[i]) => i = 2
           /\ \A i \in DOMAIN objs : IsIcon(objs[i]) => i > Cardinality(Backgrounds) + 1

\* C33: the angle of an object changes only in a pointer-up that ends a gesture
\* begun by a pointer-down on that object: a pointer-up that no pointer-down
\* on the canvas has preceded since the pointer-up before it turns nothing
RotationNeedsPointerDown ==
    [][ \A i \in DOMAIN objs :
          (i \in DOMAIN objs' /\ objs'[i].id = objs[i].id /\ objs'[i].angle # objs[i].angle)
              => (btnDown /\ ~btnDown' /\ gesture.tgt = objs[i].id) ]_vars

\* C34: when a restore has completed, the scene holds the objects of the
\* snapshot in their order, each of its type and source and with its position,
\* size and angle; an export finds the page region, and Delete refuses the page
\* and the background
SaveLoadRoundTrip ==
    [][ ev'.op = "loaded"
            => \A l \in loads \ loads' :
                 /\ Len(objs') = Len(l.json)
                 /\ \A i \in DOMAIN l.json :
                       /\ objs'[i].type = l.json[i].type /\ objs'[i].src = l.json[i].src
                       /\ objs'[i].left = l.json[i].left /\ objs'[i].top = l.json[i].top
                       /\ objs'[i].w = l.json[i].w /\ objs'[i].h = l.json[i].h
                       /\ objs'[i].angle = l.json[i].angle
                 /\ (\E i \in DOMAIN objs' : IsPage(objs'[i])) => getA3Region(objs').found
                 /\ \A i \in DOMAIN objs' :
                       (IsPage(objs'[i]) \/ IsBackground(objs'[i]))
                           => ~deletable(objs', objs'[i].id) ]_vars

\* C35: showing, hiding and dragging the navigation toolbar leaves the canvas
\* as it is: the canvas is not created anew (the objects and their identities
\* stay, no fit is requested), and the viewport transform, the selection, the
\* state of the pointer gesture and the pending drops are unchanged
ToolbarOps == { "toolbarVisible", "toolbarDown", "toolbarMove", "toolbarUp" }
ToolbarLeavesCanvas ==
    [][ ev'.op \in ToolbarOps
            => UNCHANGED << vpt, objs, active, nextId, rafFit, isSpaceDown, isDragging, selection,
                            lastPos, clickState, ptr, btnDown, xform, drops, uploads, loads >> ]_vars
\* the toolbar was hidden after it had been dragged, with an icon on the canvas
\* that had been clicked and the view fitted to the page
ToolbarHiddenAfterDrag ==
    /\ ev.op = "toolbarVisible"
    /\ ~toolbar.visible
    /\ toolbar.x # 12 /\ toolbar.y # 12
    /\ Len(objs) = 2
    /\ clickState.target # 0
    /\ vpt = fitTransform

\* C36: Delete, Backspace and the arrow keys pressed while the focus is in an
\* input, a textarea or an editable element remove no object, leave the
\* selection and the viewport transform as they are, and do not suppress the
\* default action of the key
TypingKeysInert ==
    [][ (ev'.op \in { "delete", "arrow" } /\ ev'.flag)
            => /\ objs' = objs
               /\ active' = active
               /\ vpt' = vpt
               /\ ~ev'.prevented ]_vars
\* Delete was typed into a text field while an icon was selected, in a view
\* that had been panned
TypedDeleteOverSelection ==
    /\ ev.op = "delete" /\ ev.flag /\ ~ev.prevented
    /\ active # 0 /\ IsIn(objs, active) /\ deletable(objs, active)
    /\ vpt # IdentityVpt

\* C37: the fit is deferred and applied: a completed upload leaves the viewport
\* transform as it is and requests a fit, every frame that runs a requested
\* fit sets the viewport transform to the fit of the page, and every fit that
\* has been requested, at construction or by an upload, is eventually run
FitDeferredAndApplied ==
    /\ [][ /\ ev'.op = "uploadLoaded" => (vpt' = vpt /\ rafFit' = rafFit + 1)
           /\ rafFit' < rafFit => (ev'.op = "rafFit" /\ vpt' = fitTransform) ]_vars
    /\ (rafFit > 0) ~> (rafFit = 0 /\ ev.op = "rafFit" /\ vpt = fitTransform)
\* the fit requested by an upload was run after the view had been panned
FittedAfterUpload ==
    /\ ev.op = "rafFit"
    /\ rafFit = 0
    /\ getPdfObj # 0
    /\ nView > 0
    /\ vpt = fitTransform

\* C38: when an upload completes, the one object named PDF_PAGE is the image
\* of that upload, in front of every other object, whether it was requested
\* before or after the upload whose image was there: of two uploads that
\* overlap, the one that completes last provides the background
LastUploadWins ==
    [][ ev'.op = "uploadLoaded"
            => \A u \in uploads \ uploads' :
                 /\ Cardinality(Named(objs', PDF_NAME)) = 1
                 /\ objs'[Len(objs')].name = PDF_NAME
                 /\ objs'[Len(objs')].id = u.id
                 /\ objs'[Len(objs')].src = u.img.src
                 /\ \A i \in Named(objs, PDF_NAME) : ~IsIn(objs', objs[i].id)
                 /\ docs = << >>
                      => Cardinality({ i \in DOMAIN objs' : IsBackground(objs'[i]) }) = 1 ]_vars
\* two uploads overlapped and both completed, the one requested first last:
\* its image is the only background
FirstRequestedCompletedLast ==
    /\ ev.op = "uploadLoaded" /\ ev.tgt = 2
    /\ uploads = {} /\ docs = << >>
    /\ nextId = 4 /\ rafFit = 3
    /\ Cardinality(Backgrounds) = 1
    /\ \A i \in Backgrounds : objs[i].id = 2 /\ objs[i].src = "data:pdfB"

\* C39 as stated: during a pan every pointer-move adds the pointer's movement
\* since the pointer event before it to the translation and keeps the scale, the
\* world point that was under the pointer at the pointer-down is under the
\* pointer after every move, and a pointer-move outside a pan leaves the
\* viewport transform as it is
PanFollowsPointerFromDown ==
    [][ ev'.op = "mouseMove"
            => IF isDragging
               THEN /\ vpt'.s = vpt.s
                    /\ vpt'.tx = RAdd(vpt.tx, I(ptr'[1] - ptr[1]))
                    /\ vpt'.ty = RAdd(vpt.ty, I(ptr'[2] - ptr[2]))
                    /\ toWorld(RPt(ptr'), vpt') = gesture.w0
               ELSE vpt' = vpt ]_vars

\* C39: during a pan every pointer-move adds the pointer's movement since the
\* pointer event before it to the translation and keeps the scale, so that the
\* world point that was under the pointer before the move is under it after
\* the move; a pointer-move outside a pan leaves the viewport transform as it is
PanFollowsPointer ==
    [][ ev'.op = "mouseMove"
            => IF isDragging
               THEN /\ vpt'.s = vpt.s
                    /\ vpt'.tx = RAdd(vpt.tx, I(ptr'[1] - ptr[1]))
                    /\ vpt'.ty = RAdd(vpt.ty, I(ptr'[2] - ptr[2]))
                    /\ lastPos = ptr /\ lastPos' = ptr'
                    /\ toWorld(RPt(ptr'), vpt') = toWorld(RPt(ptr), vpt)
               ELSE vpt' = vpt ]_vars
\* a pan begun with Space held over an icon has moved a zoomed view
PannedZoomedView ==
    /\ ev.op = "mouseMove"
    /\ isDragging /\ btnDown
    /\ gesture.space /\ gesture.tgt # 0
    /\ ptr # gesture.start
    /\ vpt.s # I(1)
    /\ toWorld(RPt(ptr), vpt) = gesture.w0

====
